---- MODULE Spec2Model ----
(***************************************************************************)
(* Geospatial feature-engineering pipeline of the multi-state dispensary   *)
(* model: CoordinateFeatureCalculator with its collaborators               *)
(* MultiStateDataLoader, CensusTractIdentifier, ACSDataCollector and       *)
(* GeographicAnalyzer.                                                     *)
(*                                                                         *)
(* Units.  Coordinates are integers in thousandths of a degree.  geopy's   *)
(* geodesic distance is abstracted to the taxicab distance on that grid,   *)
(* read in tenths of a mile, so one grid step is 0.1 mile.  The world is a *)
(* strip one mile wide along a meridian: a tract is an interval [lo, hi)   *)
(* of latitudes, a circular buffer of radius r around c is the interval    *)
(* [c - r, c + r], and the area of a geometry is its length (one area unit *)
(* is 0.1 square mile).                                                    *)
(***************************************************************************)
EXTENDS Integers, Sequences, FiniteSets, TLC

VARIABLES
    fl_census,             \* MultiStateDataLoader.fl_census: sequence of tract rows
    pa_census,             \* MultiStateDataLoader.pa_census
    fetched_tracts_cache,  \* CoordinateFeatureCalculator.fetched_tracts_cache: GEOID -> row
    geo_cache,             \* CensusTractIdentifier.cache: cache key -> result
    geo_cache_file,        \* data/census/cache/geocoding_cache.json as last written
    acs_cache,             \* ACSDataCollector.cache: GEOID -> result
    acs_cache_file,        \* data/census/cache/acs_cache.json as last written
    files,                 \* what the disk holds of the two cache files
    acs_collector,         \* "configured", or "None" when CENSUS_API_KEY is not set
    last,                  \* the most recent call: its inputs, its outcome, its requests
    pc,                    \* per worker: position inside calculate_all_features
    loc,                   \* per worker: the locals of its running call
    job                    \* the offline batch step in hand: its inputs and its result

vars == <<fl_census, pa_census, fetched_tracts_cache, geo_cache, geo_cache_file,
          acs_cache, acs_cache_file, files, acs_collector, last, pc, loc, job>>

storeVars == <<fl_census, pa_census, fetched_tracts_cache>>
cacheVars == <<geo_cache, geo_cache_file, acs_cache, acs_cache_file, files>>
workerVars == <<pc, loc>>

-----------------------------------------------------------------------------
(* Values *)

\* Python's None and a float NaN read from a CSV cell; both lie outside the
\* value range of every ACS variable.
None == -1
NaN == -2

Abs(x) == IF x < 0 THEN -x ELSE x
Min(a, b) == IF a <= b THEN a ELSE b
Max(a, b) == IF a >= b THEN a ELSE b

RECURSIVE GCD(_, _)
GCD(a, b) == IF b = 0 THEN a ELSE GCD(b, a % b)

\* Exact fractions for the float arithmetic of the area weights and of the
\* competitors per 100k
Frac(num, den) == LET g == GCD(num, den) IN [num |-> num \div g, den |-> den \div g]
FracAdd(x, y) == Frac(x.num * y.den + y.num * x.den, x.den * y.den)

-----------------------------------------------------------------------------
(* Program constants *)

RADII == <<1, 3, 5, 10, 20>>

\* distance_miles > 0.1 and distance_miles <= radius, in tenths of a mile
TenthsPerMile == 10

SUPPORTED_STATES == {"FL", "PA"}

STATE_BOUNDS ==
    [FL |-> [lat_min |-> 24500, lat_max |-> 31000, lon_min |-> -87600, lon_max |-> -80000],
     PA |-> [lat_min |-> 39700, lat_max |-> 42300, lon_min |-> -80500, lon_max |-> -74700]]

LAT_LIMIT == 90000
LON_LIMIT == 180000

STATE_FIPS_MAP == [FL |-> "12", PA |-> "42"]

ACS_VARIABLES ==
    {"total_population", "median_age", "median_household_income", "per_capita_income",
     "total_pop_25_plus", "bachelors_degree", "masters_degree", "professional_degree",
     "doctorate_degree"}

MISSING_VALUE_CODES == {-666666666, -888888888, -999999999}

\* 1 square mile in area units (2,589,988.11 square metres in the source)
SQM_PER_SQ_MILE == 10

GEO_MAX_RETRIES == 3
ACS_MAX_RETRIES == 3

\* dispensaries_df['distance_miles'] > 0.1, in tenths of a mile
SAME_LOCATION_TENTHS == 1

\* (count / population) * 100000
PER_100K == 100000

\* The unit of the distance-weighted score: 1.0 is SCORE_ONE
SCORE_ONE == 10000

-----------------------------------------------------------------------------
(* Bounds of the modelled world *)

\* Florida tracts of the statewide extract, laid side by side, two miles each
NumGridTracts == 3

-----------------------------------------------------------------------------
(* The outside world: tract geography, the ACS tables, the Gazetteer files *)

\* A GEOID is state FIPS + county FIPS + tract FIPS; geoid[:2], geoid[2:5] and
\* geoid[5:11] are its three components.
Geoid(state_fips, county_fips, tract_fips) == <<state_fips, county_fips, tract_fips>>

GridLo(i) == 28000 + 20 * (i - 1)

GridTract(i) ==
    [geoid |-> Geoid("12", "095", i), lo |-> GridLo(i), hi |-> GridLo(i) + 20, lon |-> -81000]

G_OK      == [geoid |-> Geoid("12", "095", 901), lo |-> 27960, hi |-> 28000, lon |-> -81000]
G_PARTIAL == [geoid |-> Geoid("12", "095", 902), lo |-> 27940, hi |-> 27960, lon |-> -81000]
G_404     == [geoid |-> Geoid("12", "095", 903), lo |-> 27920, hi |-> 27940, lon |-> -81000]
G_GA      == [geoid |-> Geoid("13", "039", 904), lo |-> 30900, hi |-> 30920, lon |-> -81000]
P_ONE     == [geoid |-> Geoid("42", "101", 1),   lo |-> 40000, hi |-> 40020, lon |-> -77000]

GridTracts == {GridTract(i) : i \in 1..NumGridTracts}

WorldTracts == GridTracts \cup {G_OK, G_PARTIAL, G_404, G_GA, P_ONE}

Centroid(t) == (t.lo + t.hi) \div 2
Area(lo, hi) == IF hi > lo THEN hi - lo ELSE 0

\* The Census geocoder's answer for a point: the "Census Tracts" list of the
\* response, empty over water.
CensusTractsAt(latitude, longitude) ==
    {t \in WorldTracts : t.lon = longitude /\ t.lo <= latitude /\ latitude < t.hi}

Demo(pop, age, hh, pci, p25, ba, ma, prof, doc) ==
    [total_population |-> pop, median_age |-> age, median_household_income |-> hh,
     per_capita_income |-> pci, total_pop_25_plus |-> p25, bachelors_degree |-> ba,
     masters_degree |-> ma, professional_degree |-> prof, doctorate_degree |-> doc]

GridPopulation(i) == IF i <= 2 THEN 100 ELSE 40 + 10 * i

\* The ACS 5-year table: whether the API publishes a tract (it answers 404 for
\* one it does not), and the raw values it returns.  A cell the Bureau could
\* not estimate holds one of the missing-value codes.
ACS_PUBLISHED(geoid) == geoid # G_404.geoid

ACS_TABLE(geoid) ==
    CASE geoid = G_OK.geoid      -> Demo(70, 41, 52, 30, 50, 9, 4, 2, 1)
      [] geoid = G_PARTIAL.geoid -> Demo(-666666666, 38, -666666666, 25, 0, 0, 0, 0, 0)
      [] geoid = G_GA.geoid      -> Demo(90, 35, 48, 27, 60, 10, -888888888, 2, 1)
      [] geoid = P_ONE.geoid     -> Demo(80, 39, 61, 33, 55, 12, 6, 3, 1)
      [] OTHER                   -> Demo(GridPopulation(geoid[3]), 40, 50, 28, 60, 10, 5, 2, 1)

\* data/census/gazeteer/2020_Gaz_tracts_{fips}.txt: GEOID, INTPTLAT, INTPTLONG, ALAND
GAZETTEER(state_fips) ==
    {[GEOID |-> t.geoid, INTPTLAT |-> Centroid(t), INTPTLONG |-> t.lon,
      ALAND |-> Area(t.lo, t.hi)] : t \in {w \in WorldTracts : w.geoid[1] = state_fips}}

\* data/census/intermediate/all_tracts_demographics.csv: the statewide extract.
\* A value the collection run could not determine is an empty cell and reads
\* as NaN.  G_PARTIAL is in the extract without a population; G_OK, G_404 and
\* the Georgia tract are not in it.
CsvRow(t, demo) ==
    [census_geoid |-> t.geoid, census_state_fips |-> t.geoid[1],
     tract_area_sqm |-> Area(t.lo, t.hi), acs |-> demo]

CsvDemo(t) ==
    LET raw == ACS_TABLE(t.geoid)
        collected == [v \in ACS_VARIABLES |->
                        IF raw[v] \in MISSING_VALUE_CODES THEN NaN ELSE raw[v]]
    IN  IF t = GridTract(NumGridTracts)
        THEN [collected EXCEPT !.total_pop_25_plus = NaN, !.bachelors_degree = NaN,
                               !.median_age = NaN]
        ELSE collected

GridCsv[i \in 0..NumGridTracts] ==
    IF i = 0 THEN <<>> ELSE Append(GridCsv[i - 1], CsvRow(GridTract(i), CsvDemo(GridTract(i))))

FULL_CSV ==
    GridCsv[NumGridTracts] \o
    <<CsvRow(G_PARTIAL, CsvDemo(G_PARTIAL)), CsvRow(P_ONE, CsvDemo(P_ONE))>>

\* data/census/cache/tract_centroids.csv
TRACT_CENTROIDS(geoid) ==
    LET t == CHOOSE w \in WorldTracts : w.geoid = geoid
    IN  [latitude |-> Centroid(t), longitude |-> t.lon]

\* data/processed/combined_with_competitive_features_corrected.csv: the
\* columns of the training data the loader reads.  Florida stores at the
\* boundary point of the first two grid tracts, 0.1 mile east of it, 0.2, 1, 3
\* and 20 miles north of it, one step beyond 20 miles, and 2 miles south of
\* it; a store without Placer data; a store without coordinates; two
\* Pennsylvania stores.
TrainingRow(state, latitude, longitude, has_placer_data) ==
    [state |-> state, latitude |-> latitude, longitude |-> longitude,
     has_placer_data |-> has_placer_data]

TRAINING_DATA ==
    <<TrainingRow("FL", 28020, -81000, TRUE), TrainingRow("FL", 28020, -80999, TRUE),
      TrainingRow("FL", 28022, -81000, TRUE), TrainingRow("FL", 28030, -81000, TRUE),
      TrainingRow("FL", 28050, -81000, TRUE), TrainingRow("FL", 28220, -81000, TRUE),
      TrainingRow("FL", 28221, -81000, TRUE), TrainingRow("FL", 28000, -81000, TRUE),
      TrainingRow("FL", 28025, -81000, FALSE), TrainingRow("FL", NaN, -81000, TRUE),
      TrainingRow("PA", 40010, -77000, TRUE), TrainingRow("PA", 40040, -77000, TRUE)>>

-----------------------------------------------------------------------------
(* MultiStateDataLoader *)

\* census['total_population'] / (census['tract_area_sqm'] / 2589988.11)
PopulationDensity(total_population, tract_area_sqm) ==
    (total_population * SQM_PER_SQ_MILE) \div tract_area_sqm

\* load_census_data without the population filter: every tract of the
\* extract is kept
load_census_data_unfiltered(csv, state) ==
    LET of_state == SelectSeq(csv, LAMBDA r :
                        r.census_state_fips = STATE_FIPS_MAP[state])
    IN  [i \in 1..Len(of_state) |->
            LET r == of_state[i]
            IN  [census_geoid |-> r.census_geoid,
                 acs |-> r.acs,
                 latitude |-> TRACT_CENTROIDS(r.census_geoid).latitude,
                 longitude |-> TRACT_CENTROIDS(r.census_geoid).longitude,
                 tract_area_sqm |-> r.tract_area_sqm,
                 population_density |->
                     PopulationDensity(r.acs.total_population, r.tract_area_sqm),
                 census_data_complete |-> \A v \in ACS_VARIABLES : r.acs[v] # NaN]]

\* load_census_data: drop the tracts without population, derive the density,
\* attach the centroids, split by state.
load_census_data(csv, state) ==
    LET populated == SelectSeq(csv, LAMBDA r :
                        r.acs.total_population # NaN /\ r.acs.total_population > 0)
        of_state == SelectSeq(populated, LAMBDA r :
                        r.census_state_fips = STATE_FIPS_MAP[state])
    IN  [i \in 1..Len(of_state) |->
            LET r == of_state[i]
            IN  [census_geoid |-> r.census_geoid,
                 acs |-> r.acs,
                 latitude |-> TRACT_CENTROIDS(r.census_geoid).latitude,
                 longitude |-> TRACT_CENTROIDS(r.census_geoid).longitude,
                 tract_area_sqm |-> r.tract_area_sqm,
                 population_density |->
                     PopulationDensity(r.acs.total_population, r.tract_area_sqm),
                 census_data_complete |-> \A v \in ACS_VARIABLES : r.acs[v] # NaN]]

\* load_dispensary_data: the verified stores (has_placer_data) with
\* coordinates on the globe, of one state
load_dispensary_data(training_data, state) ==
    LET verified == SelectSeq(training_data, LAMBDA d : d.has_placer_data)
        located == SelectSeq(verified, LAMBDA d : d.latitude # NaN /\ d.longitude # NaN)
        on_globe == SelectSeq(located, LAMBDA d :
                        /\ -LAT_LIMIT <= d.latitude /\ d.latitude <= LAT_LIMIT
                        /\ -LON_LIMIT <= d.longitude /\ d.longitude <= LON_LIMIT)
    IN  SelectSeq(on_globe, LAMBDA d : d.state = state)

\* MultiStateDataLoader.fl_dispensaries and pa_dispensaries: set by the
\* constructor and written by nothing else
fl_dispensaries == load_dispensary_data(TRAINING_DATA, "FL")
pa_dispensaries == load_dispensary_data(TRAINING_DATA, "PA")

\* The state codes callers pass, and what upper() and strip() make of them
StateStrings == {"FL", "fl", " fl", " FL", "PA", "Pa ", "PA ", "GA", "ny", "NY", "F L", ""}

\* The characters of a state code
StateChars(state) ==
    CASE state = "FL"  -> <<"F", "L">>
      [] state = "fl"  -> <<"f", "l">>
      [] state = " fl" -> <<" ", "f", "l">>
      [] state = " FL" -> <<" ", "F", "L">>
      [] state = "PA"  -> <<"P", "A">>
      [] state = "Pa " -> <<"P", "a", " ">>
      [] state = "PA " -> <<"P", "A", " ">>
      [] state = "GA"  -> <<"G", "A">>
      [] state = "ny"  -> <<"n", "y">>
      [] state = "NY"  -> <<"N", "Y">>
      [] state = "F L" -> <<"F", " ", "L">>
      [] state = ""    -> <<>>

\* The state code with the given characters
StateString(chars) == CHOOSE state \in StateStrings : StateChars(state) = chars

\* str.upper()
upper(chars) ==
    [i \in DOMAIN chars |->
        CASE chars[i] = "f" -> "F"
          [] chars[i] = "l" -> "L"
          [] chars[i] = "a" -> "A"
          [] chars[i] = "n" -> "N"
          [] chars[i] = "y" -> "Y"
          [] OTHER -> chars[i]]

\* str.strip(): the leading and the trailing whitespace is removed
RECURSIVE strip(_)
strip(chars) ==
    IF chars = <<>> THEN chars
    ELSE IF Head(chars) = " " THEN strip(Tail(chars))
    ELSE IF chars[Len(chars)] = " " THEN strip(SubSeq(chars, 1, Len(chars) - 1))
    ELSE chars

\* state.upper() alone: surrounding whitespace is kept
UpperOnly(state) == StateString(upper(StateChars(state)))

\* state.upper().strip()
UpperStrip(state) == StateString(strip(upper(StateChars(state))))

\* get_state_data(state)[1]
StateCensus(state, fl, pa) == IF state = "FL" THEN fl ELSE pa

\* get_state_data(state)[0]
StateDispensaries(state) == IF state = "FL" THEN fl_dispensaries ELSE pa_dispensaries

\* get_state_data(state): "none" and the two tables, or the exception raised
get_state_data(state_in, fl, pa) ==
    LET state == UpperStrip(state_in)
    IN  IF state \notin SUPPORTED_STATES
        THEN [error |-> "InvalidStateError", value |-> [none |-> TRUE]]
        ELSE [error |-> "none",
              value |-> [dispensaries |-> StateDispensaries(state),
                         census |-> StateCensus(state, fl, pa)]]

\* get_state_bounds(state)
get_state_bounds(state_in) ==
    LET state == UpperStrip(state_in)
    IN  IF state \notin SUPPORTED_STATES
        THEN [error |-> "InvalidStateError", value |-> [none |-> TRUE]]
        ELSE [error |-> "none", value |-> STATE_BOUNDS[state]]

-----------------------------------------------------------------------------
(* CoordinateFeatureCalculator: pure helpers *)

\* geodesic(a, b).miles, in tenths of a mile
DistanceTenths(lat1, lon1, lat2, lon2) == Abs(lat1 - lat2) + Abs(lon1 - lon2)

\* validate_coordinates without the state's bounding box: only the global
\* ranges are checked
validate_coordinates_global_only(state, latitude, longitude) ==
    IF ~(-LAT_LIMIT <= latitude /\ latitude <= LAT_LIMIT) THEN "InvalidCoordinatesError"
    ELSE IF ~(-LON_LIMIT <= longitude /\ longitude <= LON_LIMIT) THEN "InvalidCoordinatesError"
    ELSE IF state \notin SUPPORTED_STATES THEN "InvalidStateError"
    ELSE "ok"

\* validate_coordinates: "ok", or the exception it raises
validate_coordinates(state, latitude, longitude) ==
    IF ~(-LAT_LIMIT <= latitude /\ latitude <= LAT_LIMIT) THEN "InvalidCoordinatesError"
    ELSE IF ~(-LON_LIMIT <= longitude /\ longitude <= LON_LIMIT) THEN "InvalidCoordinatesError"
    ELSE IF state \notin SUPPORTED_STATES THEN "InvalidStateError"
    ELSE IF ~(STATE_BOUNDS[state].lat_min <= latitude /\ latitude <= STATE_BOUNDS[state].lat_max)
         THEN "InvalidCoordinatesError"
    ELSE IF ~(STATE_BOUNDS[state].lon_min <= longitude /\ longitude <= STATE_BOUNDS[state].lon_max)
         THEN "InvalidCoordinatesError"
    ELSE "ok"

\* _safe_float: float(None) raises TypeError and yields the default; float(nan) is nan
safe_float(value, default) == IF value = None THEN default ELSE value

\* _safe_int: int(None) raises TypeError, int(nan) raises ValueError; both yield the default
safe_int(value, default) ==
    IF value = None THEN default ELSE IF value = NaN THEN default ELSE value

-----------------------------------------------------------------------------
(* Python dicts *)

\* The value of an expression computed once: Only({e(x) : x \in {v}}) is e(v)
Only(S) == CHOOSE x \in S : TRUE

EmptyDict == [k \in {} |-> None]
DictPut(d, key, value) == [k \in DOMAIN d \cup {key} |-> IF k = key THEN value ELSE d[k]]

\* What the network does to the successive requests of one call: each request
\* but the last met a condition the caller retries on, and the call stops at
\* the first other outcome or after n requests.
RequestScripts(retried, final, n) ==
    UNION {{s \in [1..k -> retried \cup final] :
               /\ \A i \in 1..(k - 1) : s[i] \in retried
               /\ k < n => s[k] \in final} : k \in 1..n}

-----------------------------------------------------------------------------
(* The cache files of CensusTractIdentifier and ACSDataCollector *)

\* A cache file is "missing", "corrupt" (json.load raises on it) or "written"
\* (it holds the dict last dumped into it)
FileStates == {"missing", "corrupt", "written"}

\* What happens to a save: the file is written; open() raises and the file
\* stays as it was; or json.dump raises after open() truncated the file
SaveOutcomes == {"written", "denied", "truncated"}

\* _load_cache without the try/except around json.load
load_cache_unguarded(status, content) ==
    IF status = "written" THEN [error |-> "none", cache |-> content]
    ELSE IF status = "corrupt" THEN [error |-> "JSONDecodeError", cache |-> EmptyDict]
    ELSE [error |-> "none", cache |-> EmptyDict]

\* _load_cache: the dict of the file, or {} when the file does not exist or
\* json.load raises
load_cache(status, content) ==
    IF status = "written" THEN [error |-> "none", cache |-> content]
    ELSE IF status = "corrupt" THEN [error |-> "none", cache |-> EmptyDict]
    ELSE [error |-> "none", cache |-> EmptyDict]

\* _save_cache: whatever open() or json.dump raise is logged and swallowed
save_cache(cache, status, content, outcome) ==
    IF outcome = "written" THEN [error |-> "none", status |-> "written", content |-> cache]
    ELSE IF outcome = "denied" THEN [error |-> "none", status |-> status, content |-> content]
    ELSE [error |-> "none", status |-> "corrupt", content |-> content]

-----------------------------------------------------------------------------
(* CensusTractIdentifier *)

NoGeoid == Geoid("", "", 0)

GeoFailure(error) == [success |-> FALSE, geoid |-> NoGeoid, error |-> error]

\* _make_cache_key: the coordinates rounded to 6 decimals; the grid is coarser
\* than that, so the key of a grid point is the point.
make_cache_key(latitude, longitude) == <<latitude, longitude>>

\* _parse_geocoding_response on the "Census Tracts" list of the response
parse_geocoding_response(census_tracts) ==
    IF census_tracts = {} THEN GeoFailure("No census tract found")
    ELSE [success |-> TRUE, geoid |-> (CHOOSE t \in census_tracts : TRUE).geoid,
          error |-> "None"]

GeoScripts == RequestScripts({"timeout"}, {"ok", "error"}, GEO_MAX_RETRIES)

\* The scripts the callers of the calculator are run against
GeoScriptsUsed ==
    {<<"ok">>, <<"timeout", "ok">>, <<"timeout", "timeout", "timeout">>, <<"error">>}

\* The retry loop of get_tract_from_coordinates, from attempt `attempt` on
RECURSIVE geocode_attempts(_, _, _, _)
geocode_attempts(latitude, longitude, net, attempt) ==
    LET outcome == net[attempt + 1]
    IN  IF outcome = "ok"
        THEN [result |-> parse_geocoding_response(CensusTractsAt(latitude, longitude)),
              requests |-> attempt + 1]
        ELSE IF outcome = "timeout"
        THEN IF attempt < GEO_MAX_RETRIES - 1
             THEN geocode_attempts(latitude, longitude, net, attempt + 1)
             ELSE [result |-> GeoFailure("API timeout after retries"),
                   requests |-> attempt + 1]
        ELSE [result |-> GeoFailure("exception"), requests |-> attempt + 1]

\* get_tract_from_coordinates without the cache lookup: every call asks the
\* geocoder
get_tract_from_coordinates_uncached(cache, latitude, longitude, net) ==
    LET cache_key == make_cache_key(latitude, longitude)
    IN  Only({[result |-> a.result,
               cache |-> IF a.result.success THEN DictPut(cache, cache_key, a.result)
                         ELSE cache,
               requests |-> a.requests,
               saved |-> a.result.success]
              : a \in {geocode_attempts(latitude, longitude, net, 0)}})

\* get_tract_from_coordinates writing every result it parsed to the cache
get_tract_from_coordinates_caching_failures(cache, latitude, longitude, net) ==
    LET cache_key == make_cache_key(latitude, longitude)
    IN  IF cache_key \in DOMAIN cache
        THEN [result |-> cache[cache_key], cache |-> cache, requests |-> 0, saved |-> FALSE]
        ELSE Only({[result |-> a.result,
                    cache |-> IF net[a.requests] = "ok"
                              THEN DictPut(cache, cache_key, a.result) ELSE cache,
                    requests |-> a.requests,
                    saved |-> net[a.requests] = "ok"]
                   : a \in {geocode_attempts(latitude, longitude, net, 0)}})

\* get_tract_from_coordinates: the result, the cache after the call, the
\* number of requests sent, and whether the cache file was rewritten
get_tract_from_coordinates(cache, latitude, longitude, net) ==
    LET cache_key == make_cache_key(latitude, longitude)
    IN  IF cache_key \in DOMAIN cache
        THEN [result |-> cache[cache_key], cache |-> cache, requests |-> 0, saved |-> FALSE]
        ELSE Only({[result |-> a.result,
                    cache |-> IF a.result.success THEN DictPut(cache, cache_key, a.result)
                              ELSE cache,
                    requests |-> a.requests,
                    saved |-> a.result.success]
                   : a \in {geocode_attempts(latitude, longitude, net, 0)}})

-----------------------------------------------------------------------------
(* ACSDataCollector *)

\* _clean_value without the missing-value codes: every value is kept
clean_value_keeping_codes(value) == value

\* _clean_value: a missing-value code becomes None
clean_value(value) ==
    IF value = None THEN None
    ELSE IF value \in MISSING_VALUE_CODES THEN None
    ELSE value

\* _create_empty_result
create_empty_result(geoid, error_msg) ==
    [geoid |-> geoid, success |-> FALSE, error |-> error_msg, data_complete |-> FALSE,
     acs |-> [v \in ACS_VARIABLES |-> None]]

\* _parse_acs_response on the data row of a response whose header names every variable
parse_acs_response(values, geoid) ==
    LET cleaned == [v \in ACS_VARIABLES |-> clean_value(values[v])]
    IN  [geoid |-> geoid, success |-> TRUE, error |-> "None",
         data_complete |-> \A v \in ACS_VARIABLES : cleaned[v] # None,
         acs |-> cleaned]

AcsScripts == RequestScripts({"429", "timeout"}, {"answer", "empty", "error"}, ACS_MAX_RETRIES)

AcsScriptsUsed ==
    {<<"answer">>, <<"timeout", "answer">>, <<"empty">>, <<"429", "429", "429">>}

\* The retry loop of get_tract_demographics, from attempt `attempt` on
RECURSIVE acs_attempts(_, _, _)
acs_attempts(geoid, net, attempt) ==
    LET outcome == net[attempt + 1]
        last_attempt == ~(attempt < ACS_MAX_RETRIES - 1)
    IN  CASE outcome = "answer" /\ ACS_PUBLISHED(geoid) ->
               [result |-> parse_acs_response(ACS_TABLE(geoid), geoid),
                cached |-> TRUE, requests |-> attempt + 1]
          [] outcome = "answer" /\ ~ACS_PUBLISHED(geoid) ->
               [result |-> create_empty_result(geoid, "Tract not found in ACS"),
                cached |-> TRUE, requests |-> attempt + 1]
          [] outcome = "empty" ->
               [result |-> create_empty_result(geoid, "Empty response"),
                cached |-> FALSE, requests |-> attempt + 1]
          [] outcome = "429" /\ ~last_attempt -> acs_attempts(geoid, net, attempt + 1)
          [] outcome = "429" /\ last_attempt ->
               [result |-> create_empty_result(geoid, "Rate limit exceeded"),
                cached |-> FALSE, requests |-> attempt + 1]
          [] outcome = "timeout" /\ ~last_attempt -> acs_attempts(geoid, net, attempt + 1)
          [] outcome = "timeout" /\ last_attempt ->
               [result |-> create_empty_result(geoid, "API timeout"),
                cached |-> FALSE, requests |-> attempt + 1]
          [] OTHER ->
               [result |-> create_empty_result(geoid, "exception"),
                cached |-> FALSE, requests |-> attempt + 1]

\* get_tract_demographics writing every result it returns to the cache
get_tract_demographics_caching_failures(cache, geoid, net) ==
    IF geoid \in DOMAIN cache
    THEN [result |-> cache[geoid], cache |-> cache, requests |-> 0, saved |-> FALSE]
    ELSE Only({[result |-> a.result,
                cache |-> DictPut(cache, geoid, a.result),
                requests |-> a.requests,
                saved |-> TRUE]
               : a \in {acs_attempts(geoid, net, 0)}})

\* get_tract_demographics: the result, the cache after the call, the requests sent
get_tract_demographics(cache, geoid, net) ==
    IF geoid \in DOMAIN cache
    THEN [result |-> cache[geoid], cache |-> cache, requests |-> 0, saved |-> FALSE]
    ELSE Only({[result |-> a.result,
                cache |-> IF a.cached THEN DictPut(cache, geoid, a.result) ELSE cache,
                requests |-> a.requests,
                saved |-> a.cached]
               : a \in {acs_attempts(geoid, net, 0)}})

-----------------------------------------------------------------------------
(* CoordinateFeatureCalculator *)

RadiiSet == {RADII[i] : i \in 1..Len(RADII)}

NoValue == [none |-> TRUE]
NoRow == [census_geoid |-> NoGeoid]

\* The program state an operation reads and writes, passed as one record:
\* fl, pa (the loader's census tables), fetched (fetched_tracts_cache),
\* geo, geo_file (the geocoding cache and its file), acs, acs_file (the ACS
\* cache and its file), collector (acs_collector).

\* _get_tract_centroid reading the Gazetteer file of the tract's own state
\* instead of the file of the state asked for
get_tract_centroid_of_any_state(geoid, state) ==
    LET tract_row == {g \in GAZETTEER(geoid[1]) : g.GEOID = geoid}
    IN  IF tract_row = {} THEN [found |-> FALSE]
        ELSE LET tract == CHOOSE g \in tract_row : TRUE
             IN  [found |-> TRUE, latitude |-> tract.INTPTLAT,
                  longitude |-> tract.INTPTLONG, area_sqm |-> tract.ALAND]

\* _get_tract_centroid: the row of the state's Gazetteer file, or none
get_tract_centroid(geoid, state) ==
    IF state \notin DOMAIN STATE_FIPS_MAP THEN [found |-> FALSE]
    ELSE LET tract_row == {g \in GAZETTEER(STATE_FIPS_MAP[state]) : g.GEOID = geoid}
         IN  IF tract_row = {} THEN [found |-> FALSE]
             ELSE LET tract == CHOOSE g \in tract_row : TRUE
                  IN  [found |-> TRUE, latitude |-> tract.INTPTLAT,
                       longitude |-> tract.INTPTLONG, area_sqm |-> tract.ALAND]

\* The Series _fetch_missing_tract builds from the ACS result and the centroid
fetched_tract_row(geoid, acs_result, centroid) ==
    LET int_vars == {"total_population", "total_pop_25_plus", "bachelors_degree",
                     "masters_degree", "professional_degree", "doctorate_degree"}
        values == [v \in ACS_VARIABLES |->
                     IF v \in int_vars THEN safe_int(acs_result.acs[v], 0)
                     ELSE safe_float(acs_result.acs[v], 0)]
        area == safe_float(centroid.area_sqm, 0)
    IN  [census_geoid |-> geoid,
         acs |-> values,
         latitude |-> centroid.latitude,
         longitude |-> centroid.longitude,
         tract_area_sqm |-> area,
         population_density |->
             IF area > 0 /\ values.total_population > 0
             THEN PopulationDensity(values.total_population, area) ELSE 0,
         census_data_complete |-> acs_result.data_complete]

\* Why a failed ACS lookup failed: the tract has no data, or the service could
\* not be reached.
AcsCause(error) ==
    IF error \in {"Tract not found in ACS", "Empty response"} THEN "acs_not_found"
    ELSE "acs_unavailable"

GeoCause(error) ==
    IF error = "No census tract found" THEN "geocode_not_found" ELSE "geocode_unavailable"

\* The end of _fetch_missing_tract: the row is put into fetched_tracts_cache
\* and appended to the state's census table
inserted_tract(S, state, tract, acs_requests) ==
    Only({[tract |-> row, cause |-> "none",
           S |-> [S EXCEPT
                    !.fetched = DictPut(S.fetched, row.census_geoid, row),
                    !.fl = IF state = "FL" THEN Append(S.fl, row) ELSE S.fl,
                    !.pa = IF state = "PA" THEN Append(S.pa, row) ELSE S.pa],
           acs_requests |-> acs_requests]
          : row \in {tract}})

\* _fetch_missing_tract without the check of acs_result['success']: a row is
\* built from whatever the collector returned
fetch_missing_tract_unchecked(S, geoid, state, acs_net) ==
    Only({
      LET S1 == [S EXCEPT !.acs = d.cache,
                          !.acs_file = IF d.saved THEN d.cache ELSE S.acs_file]
      IN  IF ~centroid.found
          THEN [tract |-> NoRow, cause |-> "no_centroid", S |-> S1,
                acs_requests |-> d.requests]
          ELSE inserted_tract(S1, state, fetched_tract_row(geoid, d.result, centroid),
                              d.requests)
      : d \in {get_tract_demographics(S.acs, Geoid(geoid[1], geoid[2], geoid[3]), acs_net)},
        centroid \in {get_tract_centroid(geoid, state)}})

\* _fetch_missing_tract entering the tract in fetched_tracts_cache before it
\* knows whether the fetch succeeded
fetch_missing_tract_caching_first(S, geoid, state, acs_net) ==
    Only({
      LET S1 == [S EXCEPT !.acs = d.cache,
                          !.acs_file = IF d.saved THEN d.cache ELSE S.acs_file,
                          !.fetched = DictPut(S.fetched, geoid, NoRow)]
      IN  IF ~d.result.success
          THEN [tract |-> NoRow, cause |-> AcsCause(d.result.error), S |-> S1,
                acs_requests |-> d.requests]
          ELSE IF ~centroid.found
          THEN [tract |-> NoRow, cause |-> "no_centroid", S |-> S1,
                acs_requests |-> d.requests]
          ELSE inserted_tract(S1, state, fetched_tract_row(geoid, d.result, centroid),
                              d.requests)
      : d \in {get_tract_demographics(S.acs, Geoid(geoid[1], geoid[2], geoid[3]), acs_net)},
        centroid \in {get_tract_centroid(geoid, state)}})

\* _fetch_missing_tract(geoid, state): tract is the new row, or NoRow for None
fetch_missing_tract(S, geoid, state, acs_net) ==
    Only({
      LET S1 == [S EXCEPT !.acs = d.cache,
                          !.acs_file = IF d.saved THEN d.cache ELSE S.acs_file]
      IN  IF ~d.result.success
          THEN [tract |-> NoRow, cause |-> AcsCause(d.result.error), S |-> S1,
                acs_requests |-> d.requests]
          ELSE IF ~centroid.found
          THEN [tract |-> NoRow, cause |-> "no_centroid", S |-> S1,
                acs_requests |-> d.requests]
          ELSE inserted_tract(S1, state, fetched_tract_row(geoid, d.result, centroid),
                              d.requests)
      : d \in {get_tract_demographics(S.acs, Geoid(geoid[1], geoid[2], geoid[3]), acs_net)},
        centroid \in {get_tract_centroid(geoid, state)}})

\* The demographics dict match_census_tract extracts from a tract row
extract_demographics(geoid, tract) ==
    [census_geoid |-> geoid,
     median_age |-> safe_float(tract.acs.median_age, 0),
     median_household_income |-> safe_float(tract.acs.median_household_income, 0),
     per_capita_income |-> safe_float(tract.acs.per_capita_income, 0),
     population_density |-> safe_float(tract.population_density, 0),
     tract_area_sqm |-> safe_float(tract.tract_area_sqm, 0),
     total_population |-> safe_int(tract.acs.total_population, 0),
     total_pop_25_plus |-> safe_int(tract.acs.total_pop_25_plus, 0),
     bachelors_degree |-> safe_int(tract.acs.bachelors_degree, 0),
     masters_degree |-> safe_int(tract.acs.masters_degree, 0),
     professional_degree |-> safe_int(tract.acs.professional_degree, 0),
     doctorate_degree |-> safe_int(tract.acs.doctorate_degree, 0)]

\* A lookup that never matches, as when the GEOID column is read without
\* dtype=str and compared with the geocoder's string
lookup_tract_never(census_df, geoid) == SelectSeq(census_df, LAMBDA r : FALSE)

\* census_df[census_df['census_geoid'] == geoid]
lookup_tract(census_df, geoid) == SelectSeq(census_df, LAMBDA r : r.census_geoid = geoid)

Raise(error, cause, S, geo_requests, acs_requests) ==
    [error |-> error, cause |-> cause, value |-> NoValue, S |-> S,
     geo_requests |-> geo_requests, acs_requests |-> acs_requests,
     inserted |-> NoRow, home |-> NoRow]

\* match_census_tract that asks the ACS for the tract whether or not the census
\* table holds it
match_census_tract_refetching(S, state_in, latitude, longitude, geo_net, acs_net) ==
    LET state == UpperStrip(state_in)
        valid == validate_coordinates(state, latitude, longitude)
    IN  IF valid # "ok"
        THEN Raise(valid, IF valid = "InvalidStateError" THEN "invalid_state"
                          ELSE "invalid_coordinates", S, 0, 0)
        ELSE Only({
          LET S1 == [S EXCEPT !.geo = g.cache,
                              !.geo_file = IF g.saved THEN g.cache ELSE S.geo_file]
              geoid == g.result.geoid
          IN  IF ~g.result.success
              THEN Raise("DataNotFoundError", GeoCause(g.result.error), S1, g.requests, 0)
              ELSE IF S.collector = "None"
              THEN Raise("DataNotFoundError", "no_api_key", S1, g.requests, 0)
              ELSE Only({
                     IF f.tract = NoRow
                     THEN Raise("DataNotFoundError", f.cause, f.S, g.requests,
                                f.acs_requests)
                     ELSE [error |-> "none", cause |-> "none",
                           value |-> extract_demographics(geoid, f.tract), S |-> f.S,
                           geo_requests |-> g.requests,
                           acs_requests |-> f.acs_requests,
                           inserted |-> f.tract, home |-> f.tract]
                     : f \in {fetch_missing_tract(S1, geoid, state, acs_net)}})
          : g \in {get_tract_from_coordinates(S.geo, latitude, longitude, geo_net)}})

\* match_census_tract(state, latitude, longitude)
match_census_tract(S, state_in, latitude, longitude, geo_net, acs_net) ==
    LET state == UpperStrip(state_in)
        valid == validate_coordinates(state, latitude, longitude)
    IN  IF valid # "ok"
        THEN Raise(valid, IF valid = "InvalidStateError" THEN "invalid_state"
                          ELSE "invalid_coordinates", S, 0, 0)
        ELSE Only({
          LET S1 == [S EXCEPT !.geo = g.cache,
                              !.geo_file = IF g.saved THEN g.cache ELSE S.geo_file]
              geoid == g.result.geoid
          IN  IF ~g.result.success
              THEN Raise("DataNotFoundError", GeoCause(g.result.error), S1, g.requests, 0)
              ELSE Only({
                IF Len(tract_data) = 0
                THEN IF S.collector = "None"
                     THEN Raise("DataNotFoundError", "no_api_key", S1, g.requests, 0)
                     ELSE Only({
                       IF f.tract = NoRow
                       THEN Raise("DataNotFoundError", f.cause, f.S, g.requests,
                                  f.acs_requests)
                       ELSE [error |-> "none", cause |-> "none",
                             value |-> extract_demographics(geoid, f.tract), S |-> f.S,
                             geo_requests |-> g.requests,
                             acs_requests |-> f.acs_requests,
                             inserted |-> f.tract, home |-> f.tract]
                       : f \in {fetch_missing_tract(S1, geoid, state, acs_net)}})
                ELSE [error |-> "none", cause |-> "none",
                      value |-> extract_demographics(geoid, tract_data[1]), S |-> S1,
                      geo_requests |-> g.requests, acs_requests |-> 0,
                      inserted |-> NoRow, home |-> tract_data[1]]
                : tract_data \in {lookup_tract(StateCensus(state, S1.fl, S1.pa), geoid)}})
          : g \in {get_tract_from_coordinates(S.geo, latitude, longitude, geo_net)}})

\* tracts_within_radius['total_population'].sum() over the rows of census_df
\* whose centroid lies within `radius` miles
RECURSIVE population_within(_, _, _, _)
population_within(census_df, latitude, longitude, radius) ==
    IF census_df = <<>> THEN 0
    ELSE LET tract == Head(census_df)
             distance == DistanceTenths(latitude, longitude, tract.latitude, tract.longitude)
             counted == IF distance <= radius * TenthsPerMile
                           /\ tract.acs.total_population # NaN
                        THEN tract.acs.total_population ELSE 0
         IN  counted + population_within(Tail(census_df), latitude, longitude, radius)

\* calculate_population_multi_radius(state, latitude, longitude)
calculate_population_multi_radius(S, state_in, latitude, longitude) ==
    LET state == UpperStrip(state_in)
        valid == validate_coordinates(state, latitude, longitude)
        census_df == StateCensus(state, S.fl, S.pa)
    IN  IF valid # "ok"
        THEN Raise(valid, IF valid = "InvalidStateError" THEN "invalid_state"
                          ELSE "invalid_coordinates", S, 0, 0)
        ELSE [error |-> "none", cause |-> "none",
              value |-> [r \in RadiiSet |->
                           population_within(census_df, latitude, longitude, r)],
              S |-> S, geo_requests |-> 0, acs_requests |-> 0,
              inserted |-> NoRow, home |-> NoRow]

\* The distances, in file order, from the point to the stores of dispensaries_df
distances_to(dispensaries_df, latitude, longitude) ==
    [i \in 1..Len(dispensaries_df) |->
        DistanceTenths(latitude, longitude,
                       dispensaries_df[i].latitude, dispensaries_df[i].longitude)]

\* The count with the store at the site itself left in: every store within
\* the radius is a competitor
competitors_within_including_self(distances, radius) ==
    Cardinality({i \in DOMAIN distances : distances[i] <= radius * TenthsPerMile})

\* The count over the open disc: a store at exactly the radius is left out
competitors_within_open(distances, radius) ==
    Cardinality({i \in DOMAIN distances :
                    /\ distances[i] > SAME_LOCATION_TENTHS
                    /\ distances[i] < radius * TenthsPerMile})

\* len(dispensaries_df[dispensaries_df['distance_miles'] <= radius]) after
\* dispensaries_df = dispensaries_df[dispensaries_df['distance_miles'] > 0.1]
competitors_within(distances, radius) ==
    Cardinality({i \in DOMAIN distances :
                    /\ distances[i] > SAME_LOCATION_TENTHS
                    /\ distances[i] <= radius * TenthsPerMile})

\* (count / population) * 100000 if population > 0 else 0.0
per_100k(count, population) ==
    IF population > 0 THEN Frac(count * PER_100K, population) ELSE Frac(0, 1)

\* calculate_competitors_multi_radius normalised by the populations of the
\* bulk extract instead of those of the census table as it is now
calculate_competitors_multi_radius_bulk_population(S, state_in, latitude, longitude) ==
    LET state == UpperStrip(state_in)
        valid == validate_coordinates(state, latitude, longitude)
    IN  IF valid # "ok"
        THEN Raise(valid, IF valid = "InvalidStateError" THEN "invalid_state"
                          ELSE "invalid_coordinates", S, 0, 0)
        ELSE Only({
          [error |-> "none", cause |-> "none",
           value |->
             [competitors |->
                  [r \in RadiiSet |-> competitors_within(distances, r)],
              competitors_per_100k |->
                  [r \in RadiiSet |->
                      per_100k(competitors_within(distances, r), populations[r])]],
           S |-> S, geo_requests |-> 0, acs_requests |-> 0,
           inserted |-> NoRow, home |-> NoRow]
          : distances \in {distances_to(StateDispensaries(state), latitude, longitude)},
            populations \in {calculate_population_multi_radius(
                                 [S EXCEPT !.fl = load_census_data(FULL_CSV, "FL"),
                                           !.pa = load_census_data(FULL_CSV, "PA")],
                                 state, latitude, longitude).value}})

\* calculate_competitors_multi_radius(state, latitude, longitude)
calculate_competitors_multi_radius(S, state_in, latitude, longitude) ==
    LET state == UpperStrip(state_in)
        valid == validate_coordinates(state, latitude, longitude)
    IN  IF valid # "ok"
        THEN Raise(valid, IF valid = "InvalidStateError" THEN "invalid_state"
                          ELSE "invalid_coordinates", S, 0, 0)
        ELSE Only({
          [error |-> "none", cause |-> "none",
           value |->
             [competitors |->
                  [r \in RadiiSet |-> competitors_within(distances, r)],
              competitors_per_100k |->
                  [r \in RadiiSet |->
                      per_100k(competitors_within(distances, r), populations[r])]],
           S |-> S, geo_requests |-> 0, acs_requests |-> 0,
           inserted |-> NoRow, home |-> NoRow]
          : distances \in {distances_to(StateDispensaries(state), latitude, longitude)},
            populations \in {calculate_population_multi_radius(
                                 S, state, latitude, longitude).value}})

\* 1 / (d + 0.01) for a distance of d miles, truncated to the unit of the score
weight(distance) == (100 * SCORE_ONE) \div (10 * distance + 1)

\* sum(1 / (d + 0.01) for d in dispensaries_df['distance_miles']) over the
\* distances with index in idx
RECURSIVE weighted_sum(_, _)
weighted_sum(distances, idx) ==
    IF idx = {} THEN 0
    ELSE LET i == CHOOSE k \in idx : TRUE
         IN  weight(distances[i]) + weighted_sum(distances, idx \ {i})

\* calculate_competition_weighted(state, latitude, longitude, radius)
calculate_competition_weighted(S, state_in, latitude, longitude, radius) ==
    LET state == UpperStrip(state_in)
        valid == validate_coordinates(state, latitude, longitude)
    IN  IF valid # "ok"
        THEN Raise(valid, IF valid = "InvalidStateError" THEN "invalid_state"
                          ELSE "invalid_coordinates", S, 0, 0)
        ELSE Only({
          [error |-> "none", cause |-> "none",
           value |-> weighted_sum(distances,
                         {i \in DOMAIN distances :
                             /\ distances[i] > SAME_LOCATION_TENTHS
                             /\ distances[i] <= radius * TenthsPerMile}),
           S |-> S, geo_requests |-> 0, acs_requests |-> 0,
           inserted |-> NoRow, home |-> NoRow]
          : distances \in {distances_to(StateDispensaries(state), latitude, longitude)}})

\* The dict calculate_all_features returns
all_features(state, latitude, longitude, populations, competitors, weighted, demographics) ==
    [state |-> state, latitude |-> latitude, longitude |-> longitude,
     pop |-> populations,
     competitors |-> competitors.competitors,
     competitors_per_100k |-> competitors.competitors_per_100k,
     competition_weighted_20mi |-> weighted,
     demographics |-> demographics]

\* calculate_all_features with the populations computed before the tract is
\* matched, over the census table as it was when the call began
calculate_all_features_populations_first(S, state_in, latitude, longitude, geo_net, acs_net) ==
    LET state == UpperStrip(state_in)
        valid == validate_coordinates(state, latitude, longitude)
    IN  IF state \notin {"FL", "PA"} THEN Raise("InvalidStateError", "invalid_state", S, 0, 0)
        ELSE IF valid # "ok" THEN Raise(valid, "invalid_coordinates", S, 0, 0)
        ELSE Only({
          IF m.error # "none" THEN m
          ELSE [m EXCEPT !.value =
                   all_features(state, latitude, longitude, populations.value,
                       calculate_competitors_multi_radius(
                           m.S, state, latitude, longitude).value,
                       calculate_competition_weighted(
                           m.S, state, latitude, longitude, 20).value,
                       m.value)]
          : populations \in {calculate_population_multi_radius(S, state, latitude, longitude)},
            m \in {match_census_tract(S, state, latitude, longitude, geo_net, acs_net)}})

\* calculate_all_features(state, latitude, longitude): the state check, the
\* coordinate check, the tract match, then the populations, the competitor
\* counts and the distance-weighted competition.
calculate_all_features(S, state_in, latitude, longitude, geo_net, acs_net) ==
    LET state == UpperStrip(state_in)
        valid == validate_coordinates(state, latitude, longitude)
    IN  IF state \notin {"FL", "PA"} THEN Raise("InvalidStateError", "invalid_state", S, 0, 0)
        ELSE IF valid # "ok" THEN Raise(valid, "invalid_coordinates", S, 0, 0)
        ELSE Only({
          IF m.error # "none" THEN m
          ELSE [m EXCEPT !.value =
                   all_features(state, latitude, longitude,
                       calculate_population_multi_radius(
                           m.S, state, latitude, longitude).value,
                       calculate_competitors_multi_radius(
                           m.S, state, latitude, longitude).value,
                       calculate_competition_weighted(
                           m.S, state, latitude, longitude, 20).value,
                       m.value)]
          : m \in {match_census_tract(S, state, latitude, longitude, geo_net, acs_net)}})

-----------------------------------------------------------------------------
(* GeographicAnalyzer *)

\* create_buffer: the circle of radius_miles around the point, in the
\* projected CRS (radius_miles * MILES_TO_METERS)
create_buffer(latitude, longitude, radius_miles) ==
    [lo |-> latitude - radius_miles * TenthsPerMile,
     hi |-> latitude + radius_miles * TenthsPerMile]

\* _load_tracts merged with the population table: the state's tract polygons
\* of the TIGER/Line shapefile with tract_area_sqm = geometry.area, each with
\* the population the table gives for its GEOID (NaN when it gives none)
tracts_with_pop(state, census_df) ==
    {[GEOID |-> t.geoid, lo |-> t.lo, hi |-> t.hi,
      tract_area_sqm |-> Area(t.lo, t.hi),
      population |->
          LET rows == SelectSeq(census_df, LAMBDA r : r.census_geoid = t.geoid)
          IN  IF rows = <<>> THEN NaN ELSE rows[1].acs.total_population]
     : t \in {w \in WorldTracts : w.geoid[1] = STATE_FIPS_MAP[state]}}

\* calculate_area_weighted_population: the sum over the tracts that intersect
\* the buffer of tract_pop * (intersection_area / tract_area)
RECURSIVE calculate_area_weighted_population(_, _)
calculate_area_weighted_population(buffer, tracts_gdf) ==
    LET intersecting_tracts ==
            {t \in tracts_gdf : Max(t.lo, buffer.lo) <= Min(t.hi, buffer.hi)}
    IN  IF intersecting_tracts = {} THEN Frac(0, 1)
        ELSE LET tract == CHOOSE t \in intersecting_tracts : TRUE
                 tract_pop == IF tract.population = NaN THEN 0 ELSE tract.population
                 intersection_area ==
                     Area(Max(tract.lo, buffer.lo), Min(tract.hi, buffer.hi))
                 weighted_pop ==
                     IF tract.tract_area_sqm > 0
                     THEN Frac(tract_pop * intersection_area, tract.tract_area_sqm)
                     ELSE Frac(0, 1)
             IN  FracAdd(weighted_pop,
                         calculate_area_weighted_population(
                             buffer, intersecting_tracts \ {tract}))

\* calculate_multi_radius_population: pop_{r}mi for each radius
calculate_multi_radius_population(latitude, longitude, state, census_df) ==
    [r \in RadiiSet |->
        calculate_area_weighted_population(create_buffer(latitude, longitude, r),
                                           tracts_with_pop(state, census_df))]

-----------------------------------------------------------------------------
(* Inputs *)

Site(latitude, longitude) == [lat |-> latitude, lon |-> longitude]
Query(state, latitude, longitude) == [state |-> state, site |-> Site(latitude, longitude)]

\* Points of the state asked for: on the boundary of the first two grid
\* tracts (with the state code not yet normalised), in G_OK (18 tenths from
\* its centroid), in G_PARTIAL, in G_404, in the Georgia tract, and over
\* water.
ValidQueries ==
    {Query(" fl", 28020, -81000), Query("FL", 27998, -81000), Query("FL", 27950, -81000),
     Query("FL", 27930, -81000), Query("FL", 30905, -81000), Query("FL", 27800, -81000)}

\* An unsupported state; points outside latitude +-90, outside longitude
\* +-180, east of the Florida box; and a Florida point asked for as
\* Pennsylvania (south of the Pennsylvania box).
InvalidQueries ==
    {Query("GA", 28020, -81000), Query("FL", 95000, -81000), Query("FL", 28020, -181000),
     Query("FL", 28020, -79000), Query("PA", 28020, -81000)}

Queries == ValidQueries \cup InvalidQueries

\* The queries the resolver is called with directly, and those the population
\* count is
MatchQueries ==
    {Query(" fl", 28020, -81000), Query("FL", 27998, -81000), Query("FL", 27800, -81000),
     Query("FL", 28020, -79000)}

PopulationQueries ==
    {Query(" fl", 28020, -81000), Query("FL", 27950, -81000), Query("PA", 40010, -77000),
     Query("GA", 28020, -81000)}

\* The points the geocoder is called with directly
Sites == {Site(27998, -81000), Site(27800, -81000)}

\* The points the competitor counts and the weighted competition are asked
\* for directly
CompetitorQueries ==
    {Query("FL", 28020, -81000), Query("PA", 40010, -77000), Query("FL", 28020, -79000)}

Workers == {"w1", "w2"}

-----------------------------------------------------------------------------
(* State *)

\* The program state as the record the operations take
Now ==
    [fl |-> fl_census, pa |-> pa_census, fetched |-> fetched_tracts_cache,
     geo |-> geo_cache, geo_file |-> geo_cache_file,
     acs |-> acs_cache, acs_file |-> acs_cache_file, collector |-> acs_collector]

\* The state after an operation whose outcome is `out`
Becomes(out) ==
    /\ fl_census' = out.S.fl
    /\ pa_census' = out.S.pa
    /\ fetched_tracts_cache' = out.S.fetched
    /\ geo_cache' = out.S.geo
    /\ geo_cache_file' = out.S.geo_file
    /\ acs_cache' = out.S.acs
    /\ acs_cache_file' = out.S.acs_file
    /\ acs_collector' = out.S.collector
    /\ files' = [geo |-> IF out.S.geo_file # geo_cache_file THEN "written" ELSE files.geo,
                 acs |-> IF out.S.acs_file # acs_cache_file THEN "written" ELSE files.acs]
    /\ job' = job

\* What is recorded of a call: its inputs (the arguments and what the network
\* did to its requests), the exception it raised ("none" when it returned),
\* why, the value it returned, the requests it sent, the row it inserted, the
\* home tract's row, and whether a census table changed.
Call(op, state, site, geo_net, acs_net, out) ==
    [op |-> op, state |-> state, latitude |-> site.lat, longitude |-> site.lon,
     geo_net |-> geo_net, acs_net |-> acs_net,
     error |-> out.error, cause |-> out.cause, value |-> out.value,
     geo_requests |-> out.geo_requests, acs_requests |-> out.acs_requests,
     inserted |-> out.inserted, home |-> out.home,
     store_changed |-> out.S.fl # fl_census \/ out.S.pa # pa_census]

NoCall ==
    [op |-> "none", state |-> "FL", latitude |-> 0, longitude |-> 0,
     geo_net |-> <<>>, acs_net |-> <<>>,
     error |-> "none", cause |-> "none", value |-> NoValue,
     geo_requests |-> 0, acs_requests |-> 0, inserted |-> NoRow, home |-> NoRow,
     store_changed |-> FALSE]

\* The local variables of a worker inside calculate_all_features: its
\* arguments, the GEOID found, the tract row looked up or built, and the table
\* read as the first operand of pd.concat
NoLocals ==
    [state |-> "FL", latitude |-> 0, longitude |-> 0, geoid |-> NoGeoid,
     tract |-> NoRow, seen |-> <<>>]

\* No batch step has run
NoJob == [op |-> "none", args |-> <<>>, result |-> NoValue]

\* MultiStateDataLoader() and CoordinateFeatureCalculator(data_loader), with no
\* cache file on disk and with or without CENSUS_API_KEY
Init ==
    /\ fl_census = load_census_data(FULL_CSV, "FL")
    /\ pa_census = load_census_data(FULL_CSV, "PA")
    /\ fetched_tracts_cache = EmptyDict
    /\ geo_cache = EmptyDict
    /\ geo_cache_file = EmptyDict
    /\ acs_cache = EmptyDict
    /\ acs_cache_file = EmptyDict
    /\ files = [geo |-> "missing", acs |-> "missing"]
    /\ acs_collector \in {"configured", "None"}
    /\ last = NoCall
    /\ pc = [w \in Workers |-> "idle"]
    /\ loc = [w \in Workers |-> NoLocals]
    /\ job = NoJob

-----------------------------------------------------------------------------
(* Operations of a single caller *)

\* The scripts a call is run against: what the network does matters only to a
\* call that sends a request, so a call that sends none is run against the
\* script of one answered request only.
GeoScriptsFor(requests_when_ok) ==
    IF requests_when_ok = 0 THEN {<<"ok">>} ELSE GeoScriptsUsed

AcsScriptsFor(requests_when_answered) ==
    IF requests_when_answered = 0 THEN {<<"answer">>} ELSE AcsScriptsUsed

CalculateAllFeatures ==
    \E q \in Queries :
      \E geo_net \in GeoScriptsFor(
            calculate_all_features(Now, q.state, q.site.lat, q.site.lon, <<"ok">>,
                                   <<"answer">>).geo_requests) :
        \E acs_net \in AcsScriptsFor(
              calculate_all_features(Now, q.state, q.site.lat, q.site.lon, geo_net,
                                     <<"answer">>).acs_requests) :
          \E out \in {calculate_all_features(Now, q.state, q.site.lat, q.site.lon,
                                             geo_net, acs_net)} :
              /\ Becomes(out)
              /\ last' = Call("calculate_all_features", q.state, q.site,
                               geo_net, acs_net, out)
              /\ UNCHANGED workerVars

MatchCensusTract ==
    \E q \in MatchQueries :
      \E geo_net \in GeoScriptsFor(
            match_census_tract(Now, q.state, q.site.lat, q.site.lon, <<"ok">>,
                               <<"answer">>).geo_requests) :
        \E acs_net \in AcsScriptsFor(
              match_census_tract(Now, q.state, q.site.lat, q.site.lon, geo_net,
                                 <<"answer">>).acs_requests) :
          \E out \in {match_census_tract(Now, q.state, q.site.lat, q.site.lon,
                                         geo_net, acs_net)} :
              /\ Becomes(out)
              /\ last' = Call("match_census_tract", q.state, q.site, geo_net, acs_net, out)
              /\ UNCHANGED workerVars

GetTractFromCoordinates ==
    \E site \in Sites :
      \E geo_net \in GeoScriptsFor(
            get_tract_from_coordinates(geo_cache, site.lat, site.lon, <<"ok">>).requests) :
        \E g \in {get_tract_from_coordinates(geo_cache, site.lat, site.lon, geo_net)} :
          \E out \in {[error |-> "none", cause |-> "none", value |-> g.result,
                        S |-> [Now EXCEPT !.geo = g.cache,
                                          !.geo_file = IF g.saved THEN g.cache
                                                       ELSE geo_cache_file],
                        geo_requests |-> g.requests, acs_requests |-> 0,
                        inserted |-> NoRow, home |-> NoRow]} :
              /\ Becomes(out)
              /\ last' = Call("get_tract_from_coordinates", "FL", site, geo_net, <<>>, out)
              /\ UNCHANGED workerVars

CalculatePopulationMultiRadius ==
    \E q \in PopulationQueries :
      \E out \in {calculate_population_multi_radius(Now, q.state, q.site.lat,
                                                    q.site.lon)} :
          /\ Becomes(out)
          /\ last' = Call("calculate_population_multi_radius", q.state, q.site,
                           <<>>, <<>>, out)
          /\ UNCHANGED workerVars

CalculateCompetitorsMultiRadius ==
    \E q \in CompetitorQueries :
      \E out \in {calculate_competitors_multi_radius(Now, q.state, q.site.lat,
                                                     q.site.lon)} :
          /\ Becomes(out)
          /\ last' = Call("calculate_competitors_multi_radius", q.state, q.site,
                           <<>>, <<>>, out)
          /\ UNCHANGED workerVars

\* calculate_competition_weighted with its default radius of 20 miles
CalculateCompetitionWeighted ==
    \E q \in CompetitorQueries :
      \E out \in {calculate_competition_weighted(Now, q.state, q.site.lat,
                                                 q.site.lon, 20)} :
          /\ Becomes(out)
          /\ last' = Call("calculate_competition_weighted", q.state, q.site,
                           <<>>, <<>>, out)
          /\ UNCHANGED workerVars

Next ==
    \/ CalculateAllFeatures
    \/ MatchCensusTract
    \/ CalculatePopulationMultiRadius
    \/ CalculateCompetitorsMultiRadius
    \/ CalculateCompetitionWeighted
    \/ GetTractFromCoordinates

Spec == Init /\ [][Next]_vars

-----------------------------------------------------------------------------
(* Properties of the single-caller specification *)

Returned(op) == last.op = op /\ last.error = "none"

\* The last call returned the populations per radius
ReportsPopulations ==
    \/ Returned("calculate_all_features")
    \/ Returned("calculate_population_multi_radius")

LastPopulations ==
    IF last.op = "calculate_all_features" THEN last.value.pop ELSE last.value

\* The census table of the state the last call named, as it is now
LastTable == StateCensus(UpperStrip(last.state), fl_census, pa_census)

\* The tract the geocoder reports at the point of the last call
LastGeoid == parse_geocoding_response(CensusTractsAt(last.latitude, last.longitude)).geoid

\* The network's answer to the last request the call sent
LastGeoOutcome == last.geo_net[last.geo_requests]
LastAcsOutcome == last.acs_net[last.acs_requests]

\* C1: for every point and every radius the population the calculator reports
\* equals the area-weighted sum over the tracts intersecting the buffer,
\* tract_population * (intersection_area / tract_area).
C1_AreaWeightedPopulation ==
    ReportsPopulations =>
        \A r \in RadiiSet :
            LET weighted == calculate_multi_radius_population(
                                last.latitude, last.longitude,
                                UpperStrip(last.state), LastTable)[r]
            IN  LastPopulations[r] * weighted.den = weighted.num

\* C2: the populations calculate_population_multi_radius returns are
\* non-decreasing in the radius, whatever loading and on-demand inserts put
\* into the census table.
C2_PopulationsMonotone ==
    ReportsPopulations =>
        \A i \in 1..(Len(RADII) - 1) :
            LastPopulations[RADII[i]] <= LastPopulations[RADII[i + 1]]

\* Populations strictly growing with the radius over a table that holds a
\* tract fetched on demand
C2_Witness ==
    /\ Returned("calculate_population_multi_radius")
    /\ DOMAIN fetched_tracts_cache # {}
    /\ last.value[1] < last.value[3]
    /\ last.value[3] < last.value[5]

\* C3: calculate_all_features never returns a record in which a demographic
\* field holds zero in place of a value the ACS reported as unknown.
C3_NoSubstitutedDefault ==
    Returned("calculate_all_features") =>
        \A v \in ACS_VARIABLES :
            clean_value(ACS_TABLE(last.value.demographics.census_geoid)[v]) = None
                => last.value.demographics[v] # 0

\* C4: when the tract of the coordinate is not in the census table and the ACS
\* has no data for it, or the Gazetteer has no centroid for it,
\* calculate_all_features raises DataNotFoundError, returns no record and
\* adds no row for the tract.
C4_NoDataIsNotFound ==
    (/\ last.op = "calculate_all_features"
     /\ last.acs_requests > 0
     /\ \/ LastAcsOutcome = "empty"
        \/ LastAcsOutcome = "answer" /\ ~ACS_PUBLISHED(LastGeoid)
        \/ LastAcsOutcome = "answer"
             /\ ~get_tract_centroid(LastGeoid, UpperStrip(last.state)).found)
    => /\ last.error = "DataNotFoundError"
       /\ last.value = NoValue
       /\ ~last.store_changed
       /\ lookup_tract(LastTable, LastGeoid) = <<>>

\* The ACS answered a request of calculate_all_features with no data
C4_Witness ==
    /\ last.op = "calculate_all_features"
    /\ last.acs_requests > 0
    /\ LastAcsOutcome = "empty"
    /\ last.error = "DataNotFoundError"

OutsideBounds(state, latitude, longitude) ==
    \/ latitude < -LAT_LIMIT \/ latitude > LAT_LIMIT
    \/ longitude < -LON_LIMIT \/ longitude > LON_LIMIT
    \/ latitude < STATE_BOUNDS[state].lat_min \/ latitude > STATE_BOUNDS[state].lat_max
    \/ longitude < STATE_BOUNDS[state].lon_min \/ longitude > STATE_BOUNDS[state].lon_max

\* C5: for a supported state and a coordinate outside its bounding box or
\* outside latitude +-90 / longitude +-180, calculate_all_features raises
\* InvalidCoordinatesError without sending a geocoding or ACS request, without
\* changing a census table, and without returning a record.
C5_OutOfBoundsRejected ==
    (/\ last.op = "calculate_all_features"
     /\ UpperStrip(last.state) \in SUPPORTED_STATES
     /\ OutsideBounds(UpperStrip(last.state), last.latitude, last.longitude))
    => /\ last.error = "InvalidCoordinatesError"
       /\ last.geo_requests = 0
       /\ last.acs_requests = 0
       /\ ~last.store_changed
       /\ last.value = NoValue

\* A point on the globe but outside the state's box, rejected by a
\* calculator whose table already holds a tract fetched on demand
C5_Witness ==
    /\ last.op = "calculate_all_features"
    /\ last.error = "InvalidCoordinatesError"
    /\ Abs(last.latitude) <= LAT_LIMIT
    /\ Abs(last.longitude) <= LON_LIMIT
    /\ DOMAIN fetched_tracts_cache # {}

\* Two consecutive calls of the same resolver for the same coordinate
SameCoordinateAgain ==
    /\ last.op \in {"match_census_tract", "get_tract_from_coordinates"}
    /\ last'.op = last.op
    /\ last'.state = last.state
    /\ last'.latitude = last.latitude
    /\ last'.longitude = last.longitude

\* The call found a tract: match_census_tract returned, or
\* get_tract_from_coordinates returned a result with success
FoundTract(call) ==
    /\ call.error = "none"
    /\ IF call.op = "get_tract_from_coordinates" THEN call.value.success ELSE TRUE

UpstreamUnavailable ==
    \/ last.geo_requests > 0 /\ LastGeoOutcome \in {"timeout", "error"}
    \/ last.acs_requests > 0 /\ LastAcsOutcome \in {"429", "timeout", "error"}

\* C7: when the geocoder or the ACS is unreachable or rate limited after the
\* retries, calculate_all_features raises an error of another kind than the
\* DataNotFoundError it raises when the lookup found nothing.
C7_UnavailableIsDistinct ==
    (last.op = "calculate_all_features" /\ UpstreamUnavailable)
        => last.error # "DataNotFoundError"

UniqueGeoids(census_df) ==
    \A i, j \in 1..Len(census_df) :
        census_df[i].census_geoid = census_df[j].census_geoid => i = j

\* C9: with a single caller no two rows of a state's census table have the
\* same GEOID.
C9_GeoidsUnique == UniqueGeoids(fl_census) /\ UniqueGeoids(pa_census)

\* A call whose home tract is a row that an earlier call fetched on demand
C9_Witness ==
    /\ last.op \in {"calculate_all_features", "match_census_tract"}
    /\ last.error = "none"
    /\ last.inserted = NoRow
    /\ last.home.census_geoid \in DOMAIN fetched_tracts_cache
    /\ Len(fl_census) > Len(load_census_data(FULL_CSV, "FL"))

\* The population of the rows of census_df with index in idx whose centroid
\* is within `radius` miles of the point
RECURSIVE CountedPopulation(_, _, _, _, _)
CountedPopulation(census_df, idx, latitude, longitude, radius) ==
    IF idx = {} THEN 0
    ELSE LET i == CHOOSE k \in idx : TRUE
             row == census_df[i]
             near == DistanceTenths(latitude, longitude, row.latitude, row.longitude)
                         <= radius * TenthsPerMile
         IN  (IF near /\ row.acs.total_population # NaN
              THEN row.acs.total_population ELSE 0)
             + CountedPopulation(census_df, idx \ {i}, latitude, longitude, radius)

\* C10: the populations a call reports are counted over the census table as
\* it is after the call's tract resolution: every tract fetched on demand, in
\* this call or an earlier one, has its row in the table and is counted at
\* every radius that contains its centroid.
C10_FetchedTractIsCounted ==
    ReportsPopulations =>
        /\ \A g \in DOMAIN fetched_tracts_cache :
               g[1] = STATE_FIPS_MAP[UpperStrip(last.state)]
                   => lookup_tract(LastTable, g) = <<fetched_tracts_cache[g]>>
        /\ \A r \in RadiiSet :
               LastPopulations[r] =
                   CountedPopulation(LastTable, 1..Len(LastTable),
                                     last.latitude, last.longitude, r)

\* A call that fetched its tract on demand and counted it from the radius
\* that reaches its centroid on
C10_Witness ==
    /\ Returned("calculate_all_features")
    /\ last.inserted # NoRow
    /\ last.inserted.acs.total_population > 0
    /\ \E i \in 1..(Len(RADII) - 1) :
          /\ DistanceTenths(last.latitude, last.longitude,
                            last.inserted.latitude, last.inserted.longitude)
                 > RADII[i] * TenthsPerMile
          /\ last.value.pop[RADII[i + 1]]
                 >= last.value.pop[RADII[i]] + last.inserted.acs.total_population

\* The call got as far as a GEOID: its arguments were valid and the geocoder,
\* or the geocoding cache, named a tract for the coordinate
ResolvedGeoid(call) ==
    call.cause \notin {"invalid_state", "invalid_coordinates",
                       "geocode_not_found", "geocode_unavailable"}

\* The rows of census_df that carry the GEOID
RowsOf(census_df, geoid) ==
    {i \in 1..Len(census_df) : census_df[i].census_geoid = geoid}

\* The returned dict carries the attributes of the row: every value the row
\* knows, its density and its area
CarriesAttributes(value, row) ==
    /\ value.census_geoid = row.census_geoid
    /\ \A v \in ACS_VARIABLES : row.acs[v] # NaN => value[v] = row.acs[v]
    /\ value.population_density = row.population_density
    /\ value.tract_area_sqm = row.tract_area_sqm

C12_TransientFailureRetried ==
    (last.op = "get_tract_from_coordinates" /\ last.geo_requests > 0) =>
        /\ last.geo_requests <= GEO_MAX_RETRIES
        /\ last.error = "none"
        /\ LastGeoOutcome \in {"timeout", "error"} => last.geo_requests = GEO_MAX_RETRIES
        /\ \A i \in 1..(last.geo_requests - 1) : last.geo_net[i] # "ok"

\* The last call returned competitor counts
ReportsCompetitors ==
    \/ Returned("calculate_all_features")
    \/ Returned("calculate_competitors_multi_radius")

\* The last call returned the distance-weighted competition
ReportsWeighted ==
    \/ Returned("calculate_all_features")
    \/ Returned("calculate_competition_weighted")

LastWeighted ==
    IF last.op = "calculate_all_features" THEN last.value.competition_weighted_20mi
    ELSE last.value

\* The distance from the point of the last call to each facility of the state
\* it named
FacilityDistance ==
    LET facilities == StateDispensaries(UpperStrip(last.state))
    IN  [i \in 1..Len(facilities) |->
            DistanceTenths(last.latitude, last.longitude,
                           facilities[i].latitude, facilities[i].longitude)]

\* The facilities within `tenths` tenths of a mile of the point of the last call
FacilitiesWithin(tenths) == {i \in DOMAIN FacilityDistance : FacilityDistance[i] <= tenths}

\* C13: a facility at the query coordinate, or within the same-location
\* epsilon of 0.1 mile of it, is left out of the competitor count at every
\* radius and out of the distance-weighted competition: each count is the
\* number of facilities within the radius less those within the epsilon, and
\* the score is the sum over the facilities within 20 miles less the terms of
\* those within the epsilon.
C13_SameLocationExcluded ==
    /\ ReportsCompetitors =>
          \A r \in RadiiSet :
              last.value.competitors[r] + Cardinality(FacilitiesWithin(1))
                  = Cardinality(FacilitiesWithin(r * 10))
    /\ ReportsWeighted =>
          LastWeighted + weighted_sum(FacilityDistance, FacilitiesWithin(1))
              = weighted_sum(FacilityDistance, FacilitiesWithin(20 * 10))

\* Counts and score returned for a site with one facility at its very
\* coordinate, another 0.1 mile away and others farther off
C13_Witness ==
    /\ Returned("calculate_all_features")
    /\ \E i \in DOMAIN FacilityDistance : FacilityDistance[i] = 0
    /\ \E i \in DOMAIN FacilityDistance : FacilityDistance[i] = 1
    /\ last.value.competitors[1] > 0
    /\ last.value.competition_weighted_20mi > 0

\* C14: for every radius r of RADII, competitors_{r}mi is the number of
\* facilities of the queried state at a distance d with 0.1 < d <= r (one at
\* exactly r miles is counted, one at exactly 0.1 mile is not), and the five
\* counts are non-decreasing in r.
C14_CountsWithinRadius ==
    ReportsCompetitors =>
        /\ \A r \in RadiiSet :
               last.value.competitors[r] =
                   Cardinality({i \in DOMAIN FacilityDistance :
                                   1 < FacilityDistance[i] /\ FacilityDistance[i] <= r * 10})
        /\ \A i \in 1..(Len(RADII) - 1) :
               last.value.competitors[RADII[i]] <= last.value.competitors[RADII[i + 1]]

\* Counts for a site with facilities at exactly 0.1, 1, 3 and 20 miles: the
\* one at 1 mile is in competitors_1mi, and the counts grow with the radius
C14_Witness ==
    /\ Returned("calculate_competitors_multi_radius")
    /\ \A d \in {1, 10, 30, 200} : \E i \in DOMAIN FacilityDistance : FacilityDistance[i] = d
    /\ last.value.competitors[1] = 2
    /\ last.value.competitors[1] < last.value.competitors[3]
    /\ last.value.competitors[10] < last.value.competitors[20]

\* C15: in a record calculate_all_features returns, for every radius r,
\* competitors_per_100k_{r}mi is competitors_{r}mi / pop_{r}mi * 100000 of
\* the count and the population of the same record when pop_{r}mi > 0, and 0
\* when pop_{r}mi = 0; the call returns in both cases.
C15_Per100kOfSameRecord ==
    Returned("calculate_all_features") =>
        \A r \in RadiiSet :
            LET rate == last.value.competitors_per_100k[r]
            IN  IF last.value.pop[r] > 0
                THEN rate.num * last.value.pop[r]
                         = last.value.competitors[r] * 100000 * rate.den
                ELSE rate.num = 0

\* A record with competitors but nobody within 1 mile and with competitors
\* and people within 3 miles, of a call that inserted its tract
C15_Witness ==
    /\ Returned("calculate_all_features")
    /\ last.inserted # NoRow
    /\ last.value.pop[1] = 0
    /\ last.value.competitors[1] > 0
    /\ last.value.pop[3] > 0
    /\ last.value.competitors[3] > 0
    /\ last.value.competitors_per_100k[3].num > 0

\* The rows of the two census tables
CensusRows ==
    {fl_census[i] : i \in 1..Len(fl_census)} \cup {pa_census[i] : i \in 1..Len(pa_census)}

-----------------------------------------------------------------------------
(* Two workers sharing one calculator and its data loader *)

\* Two points of the tract G_OK, which the extract lacks, one of G_PARTIAL,
\* which it lacks too, and one of a tract it holds
WorkerQueries ==
    {Query("FL", 27998, -81000), Query("FL", 27970, -81000),
     Query("FL", 27950, -81000), Query("FL", 28020, -81000)}

WorkerGeoScripts == {<<"ok">>, <<"error">>}
WorkerAcsScripts == {<<"answer">>, <<"empty">>}

\* The record of a worker's call that ended with `error` or returned `value`
WorkerCall(w, error, cause, value) ==
    [NoCall EXCEPT !.op = "calculate_all_features",
                   !.state = loc[w].state,
                   !.latitude = loc[w].latitude,
                   !.longitude = loc[w].longitude,
                   !.error = error, !.cause = cause, !.value = value]

Goes(w, label) == pc' = [pc EXCEPT ![w] = label]

Ends(w, error, cause, value) ==
    /\ Goes(w, "idle")
    /\ last' = WorkerCall(w, error, cause, value)

\* calculate_all_features is entered: the state and the coordinates are
\* validated
Enter(w) ==
    /\ pc[w] = "idle"
    /\ \E q \in WorkerQueries :
          /\ validate_coordinates(UpperStrip(q.state), q.site.lat, q.site.lon) = "ok"
          /\ loc' = [loc EXCEPT ![w] =
                        [NoLocals EXCEPT !.state = UpperStrip(q.state),
                                         !.latitude = q.site.lat,
                                         !.longitude = q.site.lon]]
    /\ Goes(w, "geocode")
    /\ UNCHANGED <<storeVars, cacheVars, acs_collector, job, last>>

\* match_census_tract: census_identifier.get_tract_from_coordinates
Geocode(w) ==
    /\ pc[w] = "geocode"
    /\ \E geo_net \in WorkerGeoScripts :
        \E g \in {get_tract_from_coordinates(geo_cache, loc[w].latitude,
                                             loc[w].longitude, geo_net)} :
              /\ geo_cache' = g.cache
              /\ geo_cache_file' = IF g.saved THEN g.cache ELSE geo_cache_file
              /\ files' = [files EXCEPT !.geo = IF g.saved THEN "written" ELSE @]
              /\ IF g.result.success
                 THEN /\ loc' = [loc EXCEPT ![w].geoid = g.result.geoid]
                      /\ Goes(w, "lookup")
                      /\ UNCHANGED last
                 ELSE /\ Ends(w, "DataNotFoundError", GeoCause(g.result.error), NoValue)
                      /\ UNCHANGED loc
    /\ UNCHANGED <<storeVars, acs_cache, acs_cache_file, acs_collector, job>>

\* match_census_tract: census_df[census_df['census_geoid'] == geoid]
Lookup(w) ==
    /\ pc[w] = "lookup"
    /\ \E tract_data \in {lookup_tract(StateCensus(loc[w].state, fl_census, pa_census),
                                         loc[w].geoid)} :
           IF Len(tract_data) # 0
           THEN /\ loc' = [loc EXCEPT ![w].tract = tract_data[1]]
                /\ Goes(w, "aggregate")
                /\ UNCHANGED last
           ELSE IF acs_collector = "None"
           THEN /\ Ends(w, "DataNotFoundError", "no_api_key", NoValue)
                /\ UNCHANGED loc
           ELSE /\ Goes(w, "fetch")
                /\ UNCHANGED <<loc, last>>
    /\ UNCHANGED <<storeVars, cacheVars, acs_collector, job>>

\* _fetch_missing_tract up to fetched_tracts_cache[geoid] = tract
Fetch(w) ==
    /\ pc[w] = "fetch"
    /\ \E acs_net \in WorkerAcsScripts :
        \E d \in {get_tract_demographics(acs_cache, loc[w].geoid, acs_net)},
           centroid \in {get_tract_centroid(loc[w].geoid, loc[w].state)} :
              /\ acs_cache' = d.cache
              /\ acs_cache_file' = IF d.saved THEN d.cache ELSE acs_cache_file
              /\ files' = [files EXCEPT !.acs = IF d.saved THEN "written" ELSE @]
              /\ IF ~d.result.success
                 THEN /\ Ends(w, "DataNotFoundError", AcsCause(d.result.error), NoValue)
                      /\ UNCHANGED <<loc, fetched_tracts_cache>>
                 ELSE IF ~centroid.found
                 THEN /\ Ends(w, "DataNotFoundError", "no_centroid", NoValue)
                      /\ UNCHANGED <<loc, fetched_tracts_cache>>
                 ELSE \E tract \in {fetched_tract_row(loc[w].geoid, d.result, centroid)} :
                          /\ loc' = [loc EXCEPT ![w].tract = tract]
                          /\ fetched_tracts_cache' =
                                 DictPut(fetched_tracts_cache, loc[w].geoid, tract)
                          /\ Goes(w, "concat")
                          /\ UNCHANGED last
    /\ UNCHANGED <<fl_census, pa_census, geo_cache, geo_cache_file, acs_collector, job>>

\* pd.concat([self.data_loader.fl_census, ...]): the table is read
ConcatRead(w) ==
    /\ pc[w] = "concat"
    /\ loc' = [loc EXCEPT ![w].seen = StateCensus(loc[w].state, fl_census, pa_census)]
    /\ Goes(w, "assign")
    /\ UNCHANGED <<storeVars, cacheVars, acs_collector, job, last>>

\* self.data_loader.fl_census = ...: the concatenation is assigned
ConcatAssign(w) ==
    /\ pc[w] = "assign"
    /\ LET new == Append(loc[w].seen, loc[w].tract)
       IN  /\ fl_census' = IF loc[w].state = "FL" THEN new ELSE fl_census
           /\ pa_census' = IF loc[w].state = "PA" THEN new ELSE pa_census
    /\ Goes(w, "aggregate")
    /\ UNCHANGED <<fetched_tracts_cache, cacheVars, acs_collector, job, last, loc>>

\* The demographics are extracted, the populations are computed and
\* calculate_all_features returns
Aggregate(w) ==
    /\ pc[w] = "aggregate"
    /\ Ends(w, "none", "none",
            all_features(loc[w].state, loc[w].latitude, loc[w].longitude,
                calculate_population_multi_radius(
                    Now, loc[w].state, loc[w].latitude, loc[w].longitude).value,
                calculate_competitors_multi_radius(
                    Now, loc[w].state, loc[w].latitude, loc[w].longitude).value,
                calculate_competition_weighted(
                    Now, loc[w].state, loc[w].latitude, loc[w].longitude, 20).value,
                extract_demographics(loc[w].geoid, loc[w].tract)))
    /\ UNCHANGED <<storeVars, cacheVars, acs_collector, job, loc>>

NextConc ==
    \E w \in Workers :
        \/ Enter(w)
        \/ Geocode(w)
        \/ Lookup(w)
        \/ Fetch(w)
        \/ ConcatRead(w)
        \/ ConcatAssign(w)
        \/ Aggregate(w)

SpecConc == Init /\ [][NextConc]_vars

-----------------------------------------------------------------------------
(* Properties of the two-worker specification *)

\* The rows of a table are whole: a row fetched on demand is the row
\* _fetch_missing_tract built for its GEOID
WholeRows(census_df) ==
    \A i \in 1..Len(census_df) :
        census_df[i].census_geoid \in DOMAIN fetched_tracts_cache
            => census_df[i] = fetched_tracts_cache[census_df[i].census_geoid]

\* C8: when two workers that share one data loader have run
\* calculate_all_features for coordinates of the same tract, missing from the
\* census table, the tract is in the table exactly once, and the table never
\* shows a partially constructed row.
C8_InsertedExactlyOnce ==
    /\ WholeRows(fl_census)
    /\ \A g \in DOMAIN fetched_tracts_cache :
           (\A w \in Workers : pc[w] = "idle" /\ loc[w].geoid = g)
               => Len(lookup_tract(fl_census, g)) = 1

-----------------------------------------------------------------------------
(* The cache files across restarts *)

\* The cache files an earlier run left behind
STORED_GEO_FILE ==
    DictPut(EmptyDict, make_cache_key(27998, -81000),
            parse_geocoding_response(CensusTractsAt(27998, -81000)))

STORED_ACS_FILE ==
    DictPut(EmptyDict, G_OK.geoid, parse_acs_response(ACS_TABLE(G_OK.geoid), G_OK.geoid))

\* The tracts the ACS collector is asked for directly
CacheGeoids == {G_OK.geoid, G_404.geoid}

\* A calculator constructed with an API key over whatever the disk holds of
\* the two cache files
InitCache ==
    /\ fl_census = load_census_data(FULL_CSV, "FL")
    /\ pa_census = load_census_data(FULL_CSV, "PA")
    /\ fetched_tracts_cache = EmptyDict
    /\ files \in [geo : FileStates, acs : FileStates]
    /\ geo_cache_file = IF files.geo = "written" THEN STORED_GEO_FILE ELSE EmptyDict
    /\ acs_cache_file = IF files.acs = "written" THEN STORED_ACS_FILE ELSE EmptyDict
    /\ geo_cache = load_cache(files.geo, geo_cache_file).cache
    /\ acs_cache = load_cache(files.acs, acs_cache_file).cache
    /\ acs_collector = "configured"
    /\ last = NoCall
    /\ pc = [w \in Workers |-> "idle"]
    /\ loc = [w \in Workers |-> NoLocals]
    /\ job = NoJob

\* The process is started again: CensusTractIdentifier() and ACSDataCollector()
\* load their caches from the files, the loader reloads the census tables
Construct ==
    \E g \in {load_cache(files.geo, geo_cache_file)},
       a \in {load_cache(files.acs, acs_cache_file)} :
        /\ last' = [NoCall EXCEPT !.op = "construct",
                                  !.error = IF g.error # "none" THEN g.error ELSE a.error]
        /\ IF g.error = "none" /\ a.error = "none"
           THEN /\ geo_cache' = g.cache
                /\ acs_cache' = a.cache
                /\ fetched_tracts_cache' = EmptyDict
                /\ fl_census' = load_census_data(FULL_CSV, "FL")
                /\ pa_census' = load_census_data(FULL_CSV, "PA")
           ELSE UNCHANGED <<geo_cache, acs_cache, storeVars>>
        /\ UNCHANGED <<geo_cache_file, acs_cache_file, files, acs_collector, workerVars, job>>

\* get_tract_from_coordinates, its _save_cache meeting any of the outcomes
GetTractFromCoordinatesOnDisk ==
    \E site \in Sites, outcome \in SaveOutcomes :
      \E geo_net \in GeoScriptsFor(
            get_tract_from_coordinates(geo_cache, site.lat, site.lon, <<"ok">>).requests) :
        \E g \in {get_tract_from_coordinates(geo_cache, site.lat, site.lon, geo_net)} :
          \E saved \in {IF g.saved
                        THEN save_cache(g.cache, files.geo, geo_cache_file, outcome)
                        ELSE [error |-> "none", status |-> files.geo,
                              content |-> geo_cache_file]} :
              /\ g.saved \/ outcome = "written"
              /\ geo_cache' = g.cache
              /\ geo_cache_file' = saved.content
              /\ files' = [files EXCEPT !.geo = saved.status]
              /\ last' = [NoCall EXCEPT
                            !.op = "get_tract_from_coordinates",
                            !.latitude = site.lat, !.longitude = site.lon,
                            !.geo_net = geo_net,
                            !.error = saved.error,
                            !.value = IF saved.error = "none" THEN g.result ELSE NoValue,
                            !.geo_requests = g.requests]
              /\ UNCHANGED <<storeVars, acs_cache, acs_cache_file, acs_collector,
                             workerVars, job>>

\* get_tract_demographics, its _save_cache meeting any of the outcomes
GetTractDemographicsOnDisk ==
    \E geoid \in CacheGeoids, outcome \in SaveOutcomes :
      \E acs_net \in AcsScriptsFor(
            get_tract_demographics(acs_cache, geoid, <<"answer">>).requests) :
        \E d \in {get_tract_demographics(acs_cache, geoid, acs_net)} :
          \E saved \in {IF d.saved
                        THEN save_cache(d.cache, files.acs, acs_cache_file, outcome)
                        ELSE [error |-> "none", status |-> files.acs,
                              content |-> acs_cache_file]} :
              /\ d.saved \/ outcome = "written"
              /\ acs_cache' = d.cache
              /\ acs_cache_file' = saved.content
              /\ files' = [files EXCEPT !.acs = saved.status]
              /\ last' = [NoCall EXCEPT
                            !.op = "get_tract_demographics",
                            !.acs_net = acs_net,
                            !.error = saved.error,
                            !.value = IF saved.error = "none" THEN d.result ELSE NoValue,
                            !.acs_requests = d.requests]
              /\ UNCHANGED <<storeVars, geo_cache, geo_cache_file, acs_collector,
                             workerVars, job>>

NextCache ==
    \/ Construct
    \/ GetTractFromCoordinatesOnDisk
    \/ GetTractDemographicsOnDisk

SpecCache == InitCache /\ [][NextCache]_vars

\* C16: when the geocoding or the ACS cache file is missing or cannot be
\* parsed, construction completes with an empty in-memory cache and a lookup
\* then sends a request; neither the load of a cache nor a failed save of a
\* cache file raises an error to the caller.
C16_CacheFilesNeverFail ==
    /\ [](/\ last.op \in {"none", "construct"} =>
                /\ last.error = "none"
                /\ files.geo \in {"missing", "corrupt"} => geo_cache = EmptyDict
                /\ files.acs \in {"missing", "corrupt"} => acs_cache = EmptyDict
          /\ last.op \in {"get_tract_from_coordinates", "get_tract_demographics"} =>
                /\ last.error = "none"
                /\ last.value # NoValue)
    /\ [][/\ (last'.op = "get_tract_from_coordinates" /\ geo_cache = EmptyDict)
                => last'.geo_requests > 0
          /\ (last'.op = "get_tract_demographics" /\ acs_cache = EmptyDict)
                => last'.acs_requests > 0]_vars

\* A lookup that returned a tract although its cache file could not be
\* written, by a calculator constructed over a file that did not parse
C16_Witness ==
    /\ last.op = "get_tract_from_coordinates"
    /\ last.error = "none"
    /\ last.value.success
    /\ last.geo_requests > 0
    /\ files.geo = "corrupt"
    /\ geo_cache # EmptyDict

-----------------------------------------------------------------------------
(* The accessors of the data loader *)

GetStateData ==
    \E state \in StateStrings \ {" FL", "PA "} :
      \E out \in {get_state_data(state, fl_census, pa_census)} :
          /\ last' = [NoCall EXCEPT !.op = "get_state_data", !.state = state,
                                    !.error = out.error, !.value = out.value]
          /\ UNCHANGED <<storeVars, cacheVars, acs_collector, workerVars, job>>

GetStateBounds ==
    \E state \in StateStrings \ {" FL", "PA "} :
      \E out \in {get_state_bounds(state)} :
          /\ last' = [NoCall EXCEPT !.op = "get_state_bounds", !.state = state,
                                    !.error = out.error, !.value = out.value]
          /\ UNCHANGED <<storeVars, cacheVars, acs_collector, workerVars, job>>

\* The accessors, and match_census_tract as the writer of the census tables
NextLoader ==
    \/ GetStateData
    \/ GetStateBounds
    \/ MatchCensusTract

SpecLoader == Init /\ [][NextLoader]_vars

\* The state a code names when case and surrounding whitespace are ignored
NamedState(state) ==
    IF state \in {"FL", "fl", " fl", " FL"} THEN "FL"
    ELSE IF state \in {"PA", "Pa ", "PA "} THEN "PA"
    ELSE "other"

\* C17: get_state_data and get_state_bounds take the state code without
\* regard to case and surrounding whitespace ('fl' returns the data of 'FL'),
\* and for every state other than FL and PA they raise InvalidStateError and
\* return no data.
C17_StateCodeNormalised ==
    /\ last.op = "get_state_data" =>
          CASE NamedState(last.state) = "FL" ->
                 /\ last.error = "none"
                 /\ last.value = [dispensaries |-> fl_dispensaries, census |-> fl_census]
            [] NamedState(last.state) = "PA" ->
                 /\ last.error = "none"
                 /\ last.value = [dispensaries |-> pa_dispensaries, census |-> pa_census]
            [] OTHER ->
                 /\ last.error = "InvalidStateError"
                 /\ last.value = NoValue
    /\ last.op = "get_state_bounds" =>
          CASE NamedState(last.state) = "FL" ->
                 last.error = "none" /\ last.value = STATE_BOUNDS.FL
            [] NamedState(last.state) = "PA" ->
                 last.error = "none" /\ last.value = STATE_BOUNDS.PA
            [] OTHER ->
                 last.error = "InvalidStateError" /\ last.value = NoValue

\* The Florida tables asked for as ' fl' after a tract was inserted on demand
C17_Witness ==
    /\ last.op = "get_state_data"
    /\ last.state = " fl"
    /\ last.error = "none"
    /\ Len(last.value.census) > Len(load_census_data(FULL_CSV, "FL"))
    /\ Len(last.value.dispensaries) > 0

-----------------------------------------------------------------------------
(* MultiStateCombinedProcessor: matching the Placer records to the regulator *)
(* records.  A text cell is a sequence of words; fuzz.ratio is taken over    *)
(* the words of the two texts in place of their characters.                  *)

\* Longest DataFrames the matcher is run on
MaxPlacer == 2
MaxRegulator == 2

\* A text cell, and the NaN of an empty one
Text(words) == [isna |-> FALSE, words |-> words]
NaNText == [isna |-> TRUE, words |-> <<>>]

\* str.upper() of a word
upper_word(word) ==
    CASE word = "Oak"    -> "OAK"
      [] word = "St"     -> "ST"
      [] word = "Street" -> "STREET"
      [] word = "Elm"    -> "ELM"
      [] word = "Rd"     -> "RD"
      [] word = "Miami"  -> "MIAMI"
      [] word = "Tampa"  -> "TAMPA"
      [] OTHER           -> word

\* The replacements of standardize_address
abbreviation(word) ==
    CASE word = "STREET"    -> "ST"
      [] word = "ROAD"      -> "RD"
      [] word = "AVENUE"    -> "AVE"
      [] word = "BOULEVARD" -> "BLVD"
      [] word = "DRIVE"     -> "DR"
      [] word = "LANE"      -> "LN"
      [] word = "CIRCLE"    -> "CIR"
      [] word = "COURT"     -> "CT"
      [] word = "PLACE"     -> "PL"
      [] word = "NORTH"     -> "N"
      [] word = "SOUTH"     -> "S"
      [] word = "EAST"      -> "E"
      [] word = "WEST"      -> "W"
      [] OTHER              -> word

\* standardize_address: "" for NaN; upper case, the abbreviations, the
\* characters that are neither letters, digits nor spaces removed, the spaces
\* collapsed
standardize_address(address) ==
    IF address.isna THEN <<>>
    ELSE LET upper_case == [i \in DOMAIN address.words |-> upper_word(address.words[i])]
             replaced == [i \in DOMAIN upper_case |-> abbreviation(upper_case[i])]
         IN  SelectSeq(replaced, LAMBDA w : w # "#")

\* The length of the longest common subsequence
RECURSIVE LCS(_, _)
LCS(s1, s2) ==
    IF s1 = <<>> \/ s2 = <<>> THEN 0
    ELSE IF Head(s1) = Head(s2) THEN 1 + LCS(Tail(s1), Tail(s2))
    ELSE Max(LCS(Tail(s1), s2), LCS(s1, Tail(s2)))

\* fuzz.ratio: 100 for equal texts, 0 when one is empty, else
\* round(100 * 2 * matches / (len(s1) + len(s2)))
fuzz_ratio(s1, s2) ==
    IF s1 = s2 THEN 100
    ELSE IF s1 = <<>> \/ s2 = <<>> THEN 0
    ELSE (2 * 200 * LCS(s1, s2) + (Len(s1) + Len(s2))) \div (2 * (Len(s1) + Len(s2)))

\* str(city).upper().strip()
city_std(city) == [i \in DOMAIN city |-> upper_word(city[i])]

\* A ZIP code: its first five characters and whatever follows them
Zip(five, rest) == [five |-> five, rest |-> rest]

\* calculate_match_score: the scores in percent, the composite in hundredths
\* of a percent (60% address, 25% city, 15% ZIP)
calculate_match_score(placer_row, reg_row) ==
    Only({[composite |-> addr_score * 60 + city_score * 25 + zip_match * 15,
           address |-> addr_score, city |-> city_score, zip |-> zip_match]
          : addr_score \in {fuzz_ratio(placer_row.address_std, reg_row.address_std)},
            city_score \in {fuzz_ratio(city_std(placer_row.City), city_std(reg_row.CITY))},
            zip_match \in {IF placer_row.Zip.five = reg_row.ZIP.five THEN 100 ELSE 0}})

\* The exact matches taken among all regulator records, matched or not
exact_matches_with_matched(regulator_df, placer_addr, matched_regulator_indices) ==
    {j \in DOMAIN regulator_df : regulator_df[j].address_std = placer_addr}

\* working_regulator_df[(address_std == placer_addr) &
\*                      (~index.isin(matched_regulator_indices))]
exact_matches(regulator_df, placer_addr, matched_regulator_indices) ==
    {j \in DOMAIN regulator_df :
        /\ regulator_df[j].address_std = placer_addr
        /\ regulator_df[j].index \notin matched_regulator_indices}

\* The candidate the loops keep: the first, in index order, of those with the
\* highest composite above 0; 0 when there is none
best_match(candidates, scores) ==
    LET scoring == {j \in candidates : scores[j].composite > 0}
    IN  IF scoring = {} THEN 0
        ELSE CHOOSE j \in scoring :
                \A k \in scoring :
                    \/ scores[k].composite < scores[j].composite
                    \/ scores[k].composite = scores[j].composite /\ j <= k

\* The matched record built for a Placer row and its regulator row.  The
\* DataFrame index of the two rows is kept with it.
matched_record(state_code, placer_row, reg_row, best_scores) ==
    [state |-> state_code,
     data_source |-> "regulator_with_placer",
     has_placer_data |-> TRUE,
     match_score |-> best_scores.composite,
     match_type |-> IF best_scores.address = 100 /\ best_scores.zip = 100
                    THEN "exact" ELSE "fuzzy",
     regulator_name |-> reg_row.COMPANY,
     regulator_address |-> reg_row.ADDRESS,
     regulator_city |-> reg_row.CITY,
     regulator_zip |-> reg_row.ZIP,
     placer_name |-> placer_row.PropertyName,
     placer_address |-> placer_row.Address,
     placer_city |-> placer_row.City,
     placer_zip |-> placer_row.Zip,
     placer_index |-> placer_row.index,
     regulator_index |-> reg_row.index]

\* The loop over placer_df.iterrows(), from row i on
RECURSIVE match_rows(_, _, _, _, _)
match_rows(placer_df, regulator_df, state_code, i, acc) ==
    IF i > Len(placer_df) THEN acc
    ELSE Only({
      IF placer_row.address_std = <<>>
      THEN match_rows(placer_df, regulator_df, state_code, i + 1,
                      [acc EXCEPT !.unmatched_placer = Append(@, placer_row)])
      ELSE Only({
        IF best = 0
        THEN match_rows(placer_df, regulator_df, state_code, i + 1,
                        [acc EXCEPT !.unmatched_placer = Append(@, placer_row)])
        ELSE match_rows(placer_df, regulator_df, state_code, i + 1,
                        [acc EXCEPT
                           !.matches = Append(@, matched_record(
                               state_code, placer_row, regulator_df[best], scores[best])),
                           !.matched_regulator_indices = @ \cup {regulator_df[best].index}])
        : best \in {IF exact # {}
                    THEN best_match(exact, scores)
                    ELSE best_match(
                           {j \in DOMAIN regulator_df :
                               /\ regulator_df[j].index \notin acc.matched_regulator_indices
                               /\ scores[j].address >= 75
                               /\ scores[j].composite >= 8000},
                           scores)}})
      : placer_row \in {placer_df[i]},
        exact \in {exact_matches(regulator_df, placer_df[i].address_std,
                                 acc.matched_regulator_indices)},
        scores \in {[j \in DOMAIN regulator_df |->
                        calculate_match_score(placer_df[i], regulator_df[j])]}})

\* df['address_std'] = df[address_col].apply(self.standardize_address)
with_address_std(df, address_col) ==
    [i \in DOMAIN df |->
        [f \in DOMAIN df[i] \cup {"address_std"} |->
            IF f = "address_std" THEN standardize_address(df[i][address_col])
            ELSE df[i][f]]]

\* match_placer_to_regulator(placer_df, regulator_df, state_code): matches,
\* the unmatched Placer rows, the remaining regulator rows
match_placer_to_regulator(placer_df, regulator_df, state_code) ==
    Only({
      IF regulator_df.address_col = "none"
      THEN [matches |-> <<>>, unmatched_placer |-> placer,
            remaining_regulator |-> regulator_df.rows]
      ELSE Only({
             Only({
               [matches |-> acc.matches,
                unmatched_placer |-> acc.unmatched_placer,
                remaining_regulator |->
                    SelectSeq(working_regulator_df,
                              LAMBDA r : r.index \notin acc.matched_regulator_indices)]
               : acc \in {match_rows(placer, working_regulator_df, state_code, 1,
                                     [matches |-> <<>>, unmatched_placer |-> <<>>,
                                      matched_regulator_indices |-> {}])}})
             : working_regulator_df \in {with_address_std(regulator_df.rows, "ADDRESS")}})
      : placer \in {with_address_std(placer_df, "Address")}})

\* The Placer and the regulator records the DataFrames are made of
PlacerRecord(name, address, city, zip) ==
    [PropertyName |-> name, Address |-> address, City |-> city, Zip |-> zip]

RegulatorRecord(company, address, city, zip) ==
    [COMPANY |-> company, ADDRESS |-> address, CITY |-> city, ZIP |-> zip]

PlacerRecords ==
    {PlacerRecord("Store 1", Text(<<"123", "Oak", "St">>), <<"Miami">>, Zip("33101", "")),
     PlacerRecord("Store 2", Text(<<"123", "Oak", "Street">>), <<"Miami">>, Zip("33101", "")),
     PlacerRecord("Store 3", Text(<<"123", "Oak", "St", "#", "4">>), <<"Miami">>,
                  Zip("33101", "")),
     PlacerRecord("Store 4", NaNText, <<"Miami">>, Zip("33101", "")),
     PlacerRecord("Store 5", Text(<<"123", "Oak", "St">>), <<"Tampa">>, Zip("33602", ""))}

RegulatorRecords ==
    {RegulatorRecord("The Store", Text(<<"123", "Oak", "St">>), <<"Miami">>,
                     Zip("33101", "")),
     RegulatorRecord("Other", Text(<<"123", "Oak", "St">>), <<"Tampa">>, Zip("33602", "")),
     RegulatorRecord("Suite", Text(<<"123", "Oak", "St", "4">>), <<"MIAMI">>,
                     Zip("33101", "-1234")),
     RegulatorRecord("Elm", Text(<<"9", "Elm", "Rd">>), <<"Miami">>, Zip("33101", ""))}

\* The sequences of at most n elements of S
SeqsUpTo(S, n) == UNION {[1..k -> S] : k \in 0..n}

\* pd.read_csv: the records under a RangeIndex
Indexed(records) ==
    [i \in DOMAIN records |->
        [f \in DOMAIN records[i] \cup {"index"} |->
            IF f = "index" THEN i ELSE records[i][f]]]

\* A processor about to match a Placer file to a regulator file, with or
\* without an address column
InitIntegration ==
    /\ fl_census = load_census_data(FULL_CSV, "FL")
    /\ pa_census = load_census_data(FULL_CSV, "PA")
    /\ fetched_tracts_cache = EmptyDict
    /\ geo_cache = EmptyDict
    /\ geo_cache_file = EmptyDict
    /\ acs_cache = EmptyDict
    /\ acs_cache_file = EmptyDict
    /\ files = [geo |-> "missing", acs |-> "missing"]
    /\ acs_collector = "configured"
    /\ last = NoCall
    /\ pc = [w \in Workers |-> "idle"]
    /\ loc = [w \in Workers |-> NoLocals]
    /\ \E placer \in SeqsUpTo(PlacerRecords, MaxPlacer),
          regulator \in SeqsUpTo(RegulatorRecords, MaxRegulator),
          address_col \in {"ADDRESS", "none"} :
            job = [op |-> "match_placer_to_regulator",
                   args |-> <<Indexed(placer),
                              [address_col |-> address_col, rows |-> Indexed(regulator)],
                              "FL">>,
                   result |-> NoValue]

MatchPlacerToRegulator ==
    /\ job.op = "match_placer_to_regulator"
    /\ job.result = NoValue
    /\ job' = [job EXCEPT !.result =
                  match_placer_to_regulator(job.args[1], job.args[2], job.args[3])]
    /\ UNCHANGED <<storeVars, cacheVars, acs_collector, last, workerVars>>

NextIntegration == MatchPlacerToRegulator

SpecIntegration == InitIntegration /\ [][NextIntegration]_vars

\* The matcher has run
Matched == job.op = "match_placer_to_regulator" /\ job.result # NoValue

\* C19: match_placer_to_regulator never matches one regulator record to more
\* than one Placer record: the regulator records of the matches are pairwise
\* distinct, every Placer record is in exactly one of matches / unmatched,
\* and the remaining regulator records are exactly those no match used.
C19_RegulatorMatchedOnce ==
    Matched =>
        LET placer_df == job.args[1]
            regulator_rows == job.args[2].rows
            matches == job.result.matches
            unmatched == job.result.unmatched_placer
            remaining == job.result.remaining_regulator
            used == {matches[a].regulator_index : a \in DOMAIN matches}
        IN  /\ \A a, b \in DOMAIN matches :
                  matches[a].regulator_index = matches[b].regulator_index => a = b
            /\ \A i \in DOMAIN placer_df :
                  Cardinality({a \in DOMAIN matches : matches[a].placer_index = i})
                    + Cardinality({u \in DOMAIN unmatched : unmatched[u].index = i}) = 1
            /\ Len(matches) + Len(unmatched) = Len(placer_df)
            /\ {remaining[k].index : k \in DOMAIN remaining}
                  = {regulator_rows[j].index : j \in DOMAIN regulator_rows} \ used
            /\ Len(remaining) + Len(matches) = Len(regulator_rows)
            /\ \A k \in DOMAIN remaining :
                  \E j \in DOMAIN regulator_rows :
                      /\ regulator_rows[j].index = remaining[k].index
                      /\ regulator_rows[j].COMPANY = remaining[k].COMPANY
                      /\ regulator_rows[j].ADDRESS = remaining[k].ADDRESS

\* Two Placer records with the same standardized address and one regulator
\* record at that address: one is matched, the other is left unmatched, no
\* regulator record remains
C19_Witness ==
    /\ Matched
    /\ Len(job.args[1]) = 2
    /\ standardize_address(job.args[1][1].Address)
           = standardize_address(job.args[1][2].Address)
    /\ Len(job.args[2].rows) = 1
    /\ Len(job.result.matches) = 1
    /\ Len(job.result.unmatched_placer) = 1
    /\ job.result.unmatched_placer[1].address_std # <<>>
    /\ job.result.remaining_regulator = <<>>

-----------------------------------------------------------------------------
(* CensusFeatureEngineer *)

\* if density < 0 or density > 100000
DENSITY_CEILING == 100000

\* What a calculation returns, with what it logged
Engineered(value, logged) == [value |-> value, logged |-> logged]

\* calculate_education_percentage: None for a missing or zero denominator; a
\* percentage outside [0, 100] is logged and None is returned
calculate_education_percentage(bachelors, masters, professional, doctorate, total_25_plus) ==
    IF total_25_plus = NaN \/ total_25_plus = 0 THEN Engineered(NoValue, "none")
    ELSE Only({
           IF percentage.num < 0 \/ percentage.num > 100 * percentage.den
           THEN Engineered(NoValue, "warning")
           ELSE Engineered(percentage, "none")
           : percentage \in
               {Frac(((IF bachelors # NaN THEN bachelors ELSE 0)
                      + (IF masters # NaN THEN masters ELSE 0)
                      + (IF professional # NaN THEN professional ELSE 0)
                      + (IF doctorate # NaN THEN doctorate ELSE 0)) * 100,
                     total_25_plus)}})

\* calculate_population_density: None for a missing value or a zero area; a
\* density outside [0, 100000] is logged and returned
calculate_population_density(population, tract_area_sqm) ==
    IF population = NaN \/ tract_area_sqm = NaN \/ tract_area_sqm = 0
    THEN Engineered(NoValue, "none")
    ELSE Only({
           IF density.num < 0 \/ density.num > DENSITY_CEILING * density.den
           THEN Engineered(density, "warning")
           ELSE Engineered(density, "none")
           : density \in {Frac(population * SQM_PER_SQ_MILE, tract_area_sqm)}})

\* The raw census values the two calculations are run on
EducationInputs ==
    {<<b, m, p, d, t>> : b \in {NaN, 0, 30, 60}, m \in {NaN, 0, 20}, p \in {0, -80},
                         d \in {0, 10}, t \in {NaN, 0, 50, 100}}

DensityInputs ==
    {<<population, area>> : population \in {NaN, 0, 100, 20000, -5},
                            area \in {NaN, 0, 1, 20}}

\* An engineer about to derive a feature of one tract
InitEngineer ==
    /\ fl_census = load_census_data(FULL_CSV, "FL")
    /\ pa_census = load_census_data(FULL_CSV, "PA")
    /\ fetched_tracts_cache = EmptyDict
    /\ geo_cache = EmptyDict
    /\ geo_cache_file = EmptyDict
    /\ acs_cache = EmptyDict
    /\ acs_cache_file = EmptyDict
    /\ files = [geo |-> "missing", acs |-> "missing"]
    /\ acs_collector = "configured"
    /\ last = NoCall
    /\ pc = [w \in Workers |-> "idle"]
    /\ loc = [w \in Workers |-> NoLocals]
    /\ \/ \E args \in EducationInputs :
             job = [op |-> "calculate_education_percentage", args |-> args,
                    result |-> NoValue]
       \/ \E args \in DensityInputs :
             job = [op |-> "calculate_population_density", args |-> args,
                    result |-> NoValue]

CalculateEducationPercentage ==
    /\ job.op = "calculate_education_percentage"
    /\ job.result = NoValue
    /\ job' = [job EXCEPT !.result =
                  calculate_education_percentage(job.args[1], job.args[2], job.args[3],
                                                 job.args[4], job.args[5])]
    /\ UNCHANGED <<storeVars, cacheVars, acs_collector, last, workerVars>>

CalculatePopulationDensity ==
    /\ job.op = "calculate_population_density"
    /\ job.result = NoValue
    /\ job' = [job EXCEPT !.result =
                  calculate_population_density(job.args[1], job.args[2])]
    /\ UNCHANGED <<storeVars, cacheVars, acs_collector, last, workerVars>>

NextEngineer ==
    \/ CalculateEducationPercentage
    \/ CalculatePopulationDensity

SpecEngineer == InitEngineer /\ [][NextEngineer]_vars

\* The degree holders of an education job: a missing count adds nothing
DegreeHolders ==
    LET known(x) == IF x = NaN THEN 0 ELSE x
    IN  known(job.args[1]) + known(job.args[2]) + known(job.args[3]) + known(job.args[4])

\* C20: when a derived education percentage (degree holders / population 25+
\* * 100) falls outside [0, 100], or a derived population density exceeds the
\* ceiling, a warning is logged and the computed value is still returned.
C20_OutOfRangeLoggedNotRejected ==
    /\ (/\ job.op = "calculate_education_percentage"
        /\ job.result # NoValue
        /\ job.args[5] \notin {NaN, 0}
        /\ \/ DegreeHolders * 100 < 0
           \/ DegreeHolders * 100 > 100 * job.args[5])
       => /\ job.result.logged = "warning"
          /\ job.result.value # NoValue
          /\ job.result.value.num * job.args[5] = DegreeHolders * 100 * job.result.value.den
    /\ (/\ job.op = "calculate_population_density"
        /\ job.result # NoValue
        /\ job.args[1] # NaN
        /\ job.args[2] \notin {NaN, 0}
        /\ job.args[1] * SQM_PER_SQ_MILE > DENSITY_CEILING * job.args[2])
       => /\ job.result.logged = "warning"
          /\ job.result.value # NoValue
          /\ job.result.value.num * job.args[2]
                 = job.args[1] * SQM_PER_SQ_MILE * job.result.value.den

-----------------------------------------------------------------------------
(* CensusTractIdentifier.batch_identify_tracts across an interrupted run *)

\* The number of rows of the dispensary file and the checkpoint interval the
\* function is called with
BatchRows == 4
CheckpointInterval == 2

\* A process is started at most this many times
MaxRuns == 2

\* A row of the dispensary file: its coordinates, NaN when missing
BatchRow(latitude, longitude) == [latitude |-> latitude, longitude |-> longitude]

\* A point in G_OK, a point over water, and a row without coordinates
BatchRowsUsed == {BatchRow(27998, -81000), BatchRow(27800, -81000), BatchRow(NaN, NaN)}

\* result_df = df.copy() with the new columns initialised
initial_result_df(df) ==
    [i \in DOMAIN df |->
        [latitude |-> df[i].latitude, longitude |-> df[i].longitude,
         census_geoid |-> NoGeoid, census_tract_error |-> FALSE]]

\* A GEOID column written by to_csv and read back by pd.read_csv: None comes
\* back as NaN (still missing), a string of digits as a number
read_csv_geoid(geoid) ==
    IF geoid = NoGeoid THEN NoGeoid ELSE <<"float64", geoid[1], geoid[2], geoid[3]>>

\* result_df.to_csv(checkpoint_file) followed by pd.read_csv(checkpoint_file)
read_csv(rows) ==
    [i \in DOMAIN rows |-> [rows[i] EXCEPT !.census_geoid = read_csv_geoid(@)]]

\* The checkpoint block at the head of batch_identify_tracts: the frame to
\* work on and the first index to process
load_checkpoint(df, checkpoint) ==
    IF checkpoint.status = "written"
    THEN [result_df |-> read_csv(checkpoint.rows), start_idx |-> Len(checkpoint.rows)]
    ELSE [result_df |-> initial_result_df(df), start_idx |-> 0]

\* The body of the loop for the row of index idx (from 0): the frame, the
\* geocoding cache, the requests sent, whether the geocoder was called,
\* whether the cache file was rewritten, and whether the end of the body (the
\* checkpoint and the sleep) was reached
identify_row(result_df, start_idx, idx, cache, net) ==
    LET row == result_df[idx + 1]
        same == [result_df |-> result_df, cache |-> cache, requests |-> 0,
                 called |-> FALSE, saved |-> FALSE, completed |-> FALSE]
    IN  IF idx < start_idx THEN same
        ELSE IF row.latitude = NaN \/ row.longitude = NaN
        THEN [same EXCEPT !.result_df =
                [result_df EXCEPT ![idx + 1].census_tract_error = TRUE]]
        ELSE Only({
               [result_df |->
                    IF g.result.success
                    THEN [result_df EXCEPT ![idx + 1].census_geoid = g.result.geoid,
                                           ![idx + 1].census_tract_error = FALSE]
                    ELSE [result_df EXCEPT ![idx + 1].census_tract_error = TRUE],
                cache |-> g.cache, requests |-> g.requests, called |-> TRUE,
                saved |-> g.saved, completed |-> TRUE]
               : g \in {get_tract_from_coordinates(cache, row.latitude, row.longitude, net)}})

\* The state of a batch: the locals of the running call, the checkpoint file
\* on disk, how often the running call handed each row to the geocoder,
\* the number of rows the last periodic checkpoint was written after, and
\* whether a run was interrupted with that checkpoint on disk
Batch(phase, runs, result_df, start_idx, idx, checkpoint, geocoded, checkpointed, interrupted) ==
    [phase |-> phase, runs |-> runs, result_df |-> result_df, start_idx |-> start_idx,
     idx |-> idx, checkpoint |-> checkpoint, geocoded |-> geocoded,
     checkpointed |-> checkpointed, interrupted |-> interrupted]

NoCheckpoint == [status |-> "missing", rows |-> <<>>]

\* An identifier about to process a dispensary file, with no checkpoint file
\* or with one that pd.read_csv cannot read
InitBatch ==
    /\ fl_census = load_census_data(FULL_CSV, "FL")
    /\ pa_census = load_census_data(FULL_CSV, "PA")
    /\ fetched_tracts_cache = EmptyDict
    /\ geo_cache = EmptyDict
    /\ geo_cache_file = EmptyDict
    /\ acs_cache = EmptyDict
    /\ acs_cache_file = EmptyDict
    /\ files = [geo |-> "missing", acs |-> "missing"]
    /\ acs_collector = "configured"
    /\ last = NoCall
    /\ pc = [w \in Workers |-> "idle"]
    /\ loc = [w \in Workers |-> NoLocals]
    /\ \E df \in [1..BatchRows -> BatchRowsUsed], status \in {"missing", "corrupt"} :
          job = [op |-> "batch_identify_tracts",
                 args |-> df,
                 result |-> Batch("idle", 0, <<>>, 0, 0,
                                  [NoCheckpoint EXCEPT !.status = status],
                                  [i \in 1..BatchRows |-> 0], 0, FALSE)]

\* CensusTractIdentifier() and the head of batch_identify_tracts(df)
BatchStart ==
    /\ job.op = "batch_identify_tracts"
    /\ job.result.phase \in {"idle", "interrupted"}
    /\ job.result.runs < MaxRuns
    /\ \E c \in {load_checkpoint(job.args, job.result.checkpoint)} :
          job' = [job EXCEPT !.result.phase = "running",
                             !.result.runs = @ + 1,
                             !.result.result_df = c.result_df,
                             !.result.start_idx = c.start_idx,
                             !.result.idx = 0,
                             !.result.geocoded = [i \in DOMAIN job.args |-> 0]]
    /\ geo_cache' = load_cache(files.geo, geo_cache_file).cache
    /\ UNCHANGED <<storeVars, geo_cache_file, acs_cache, acs_cache_file, files,
                   acs_collector, last, workerVars>>

\* One iteration of the loop, with its checkpoint
IdentifyRow ==
    /\ job.op = "batch_identify_tracts"
    /\ job.result.phase = "running"
    /\ job.result.idx < Len(job.result.result_df)
    /\ \E idx \in {job.result.idx} :
        \E geo_net \in GeoScriptsUsed :
          \E r \in {identify_row(job.result.result_df, job.result.start_idx, idx,
                                 geo_cache, geo_net)} :
            /\ r.requests = 0 => geo_net = <<"ok">>
            /\ job' = [job EXCEPT
                  !.result.result_df = r.result_df,
                  !.result.idx = idx + 1,
                  !.result.geocoded[idx + 1] = IF r.called THEN @ + 1 ELSE @,
                  !.result.checkpoint =
                      IF r.completed /\ (idx + 1) % CheckpointInterval = 0
                      THEN [status |-> "written", rows |-> r.result_df]
                      ELSE @,
                  !.result.checkpointed =
                      IF r.completed /\ (idx + 1) % CheckpointInterval = 0
                      THEN idx + 1 ELSE @]
            /\ geo_cache' = r.cache
            /\ geo_cache_file' = IF r.saved THEN r.cache ELSE geo_cache_file
            /\ files' = [files EXCEPT !.geo = IF r.saved THEN "written" ELSE @]
            /\ last' = [NoCall EXCEPT !.op = "batch_identify_tracts",
                                      !.geo_net = geo_net,
                                      !.geo_requests = r.requests]
    /\ UNCHANGED <<storeVars, acs_cache, acs_cache_file, acs_collector, workerVars>>

\* The end of the loop: the final save and the return
BatchReturn ==
    /\ job.op = "batch_identify_tracts"
    /\ job.result.phase = "running"
    /\ job.result.idx = Len(job.result.result_df)
    /\ job' = [job EXCEPT !.result.phase = "returned",
                          !.result.checkpoint =
                              [status |-> "written", rows |-> job.result.result_df]]
    /\ UNCHANGED <<storeVars, cacheVars, acs_collector, last, workerVars>>

\* The process is killed between two iterations: its memory is lost, the
\* files stay
Interrupt ==
    /\ job.op = "batch_identify_tracts"
    /\ job.result.phase = "running"
    /\ job.result.idx < Len(job.result.result_df)
    /\ job.result.runs < MaxRuns
    /\ job' = [job EXCEPT !.result.phase = "interrupted",
                          !.result.result_df = <<>>,
                          !.result.start_idx = 0,
                          !.result.interrupted = job.result.checkpoint.status = "written"]
    /\ geo_cache' = EmptyDict
    /\ UNCHANGED <<storeVars, geo_cache_file, acs_cache, acs_cache_file, files,
                   acs_collector, last, workerVars>>

NextBatch ==
    \/ BatchStart
    \/ IdentifyRow
    \/ BatchReturn
    \/ Interrupt

SpecBatch == InitBatch /\ [][NextBatch]_vars

\* The second run has returned after the first was interrupted with a
\* checkpoint on disk
Recovered ==
    /\ job.op = "batch_identify_tracts"
    /\ job.result.phase = "returned"
    /\ job.result.interrupted

\* C21: when a run of batch_identify_tracts is interrupted after a periodic
\* checkpoint was written and the function is run again on the same input, no
\* row handled before the checkpoint is handed to the geocoder again, every
\* row with coordinates that the checkpoint does not cover is handed to it,
\* and at completion every row with coordinates carries a GEOID or
\* census_tract_error = True.
C21_CrashRecovery ==
    Recovered =>
        \A i \in DOMAIN job.args :
            /\ i <= job.result.checkpointed => job.result.geocoded[i] = 0
            /\ job.args[i].latitude # NaN =>
                  /\ i > job.result.checkpointed => job.result.geocoded[i] >= 1
                  /\ \/ job.result.result_df[i].census_geoid # NoGeoid
                     \/ job.result.result_df[i].census_tract_error

-----------------------------------------------------------------------------
(* ACSDataCollector.batch_collect_demographics and its rate limit *)

\* The number of rows of the tract file
CollectRows == 3

\* Tenths of a second: rate_limit_delay = 0.5, and the unit of the backoff
\* sleeps 2 ** attempt
RATE_LIMIT_DELAY == 5
BACKOFF_UNIT == 10

\* The tracts of the rows: published, unpublished (404), with missing cells,
\* and a row the geocoder found no tract for
CollectGeoids == {G_OK.geoid, G_404.geoid, G_PARTIAL.geoid, NoGeoid}

\* result_df[[state_col, county_col, tract_col]].drop_duplicates().dropna():
\* the first occurrence of every tract, in the order of the rows
RECURSIVE unique_tracts(_)
unique_tracts(tracts_df) ==
    IF tracts_df = <<>> THEN <<>>
    ELSE Only({
           IF head = NoGeoid \/ \E i \in DOMAIN tracts_df : i < Len(tracts_df) /\ tracts_df[i] = head
           THEN unique_tracts(SubSeq(tracts_df, 1, Len(tracts_df) - 1))
           ELSE Append(unique_tracts(SubSeq(tracts_df, 1, Len(tracts_df) - 1)), head)
           : head \in {tracts_df[Len(tracts_df)]}})

\* 2 ** n
RECURSIVE Pow2(_)
Pow2(n) == IF n = 0 THEN 1 ELSE 2 * Pow2(n - 1)

\* The sleeps of the retry loop of get_tract_demographics between the
\* successive requests of a call that sent `requests` of them: 2 ** (attempt +
\* 1) after a 429, 2 ** attempt after a timeout
acs_backoffs(net, requests) ==
    [a \in 1..(requests - 1) |->
        IF net[a] = "429" THEN BACKOFF_UNIT * Pow2(a) ELSE BACKOFF_UNIT * Pow2(a - 1)]

\* One iteration of the loop of batch_collect_demographics: the call of
\* get_tract_demographics and whether time.sleep(rate_limit_delay) ran
collect_tract(cache, geoid, net) ==
    Only({[result |-> d.result, cache |-> d.cache, requests |-> d.requests,
           saved |-> d.saved, backoffs |-> acs_backoffs(net, d.requests),
           slept |-> geoid \notin DOMAIN d.cache]
          : d \in {get_tract_demographics(cache, geoid, net)}})

\* The demographic columns mapped back onto the rows
merge_demographics(tracts_df, demographics_dict) ==
    [i \in DOMAIN tracts_df |->
        IF tracts_df[i] = NoGeoid
        THEN [census_geoid |-> NoGeoid, acs |-> [v \in ACS_VARIABLES |-> None],
              census_data_complete |-> FALSE, census_api_error |-> TRUE]
        ELSE IF tracts_df[i] \in DOMAIN demographics_dict
        THEN [census_geoid |-> tracts_df[i], acs |-> demographics_dict[tracts_df[i]].acs,
              census_data_complete |-> demographics_dict[tracts_df[i]].data_complete,
              census_api_error |-> ~demographics_dict[tracts_df[i]].success]
        ELSE [census_geoid |-> tracts_df[i], acs |-> [v \in ACS_VARIABLES |-> None],
              census_data_complete |-> FALSE, census_api_error |-> FALSE]]

\* The time slept between every two consecutive requests, given the time
\* slept since the last request (-1: no request yet), the sleeps between the
\* requests of this call, and the number of its requests
gaps_after(gaps, since, backoffs, requests) ==
    IF requests = 0 THEN gaps
    ELSE (IF since < 0 THEN gaps ELSE Append(gaps, since)) \o backoffs

\* A collector with an API key, over an empty cache or the cache an earlier
\* run left, about to collect the demographics of a tract file
InitCollect ==
    /\ fl_census = load_census_data(FULL_CSV, "FL")
    /\ pa_census = load_census_data(FULL_CSV, "PA")
    /\ fetched_tracts_cache = EmptyDict
    /\ geo_cache = EmptyDict
    /\ geo_cache_file = EmptyDict
    /\ files \in {[geo |-> "missing", acs |-> "missing"], [geo |-> "missing", acs |-> "written"]}
    /\ acs_cache_file = IF files.acs = "written" THEN STORED_ACS_FILE ELSE EmptyDict
    /\ acs_cache = load_cache(files.acs, acs_cache_file).cache
    /\ acs_collector = "configured"
    /\ last = NoCall
    /\ pc = [w \in Workers |-> "idle"]
    /\ loc = [w \in Workers |-> NoLocals]
    /\ \E tracts_df \in [1..CollectRows -> CollectGeoids] :
          job = [op |-> "batch_collect_demographics",
                 args |-> tracts_df,
                 result |-> [phase |-> "running", unique_tracts |-> unique_tracts(tracts_df),
                             idx |-> 0, demographics_dict |-> EmptyDict,
                             result_df |-> <<>>, slept |-> FALSE,
                             since |-> -1, gaps |-> <<>>]]

\* One iteration of the loop over the unique tracts
CollectTract ==
    /\ job.op = "batch_collect_demographics"
    /\ job.result.phase = "running"
    /\ job.result.idx < Len(job.result.unique_tracts)
    /\ \E geoid \in {job.result.unique_tracts[job.result.idx + 1]} :
        \E acs_net \in AcsScriptsFor(
              get_tract_demographics(acs_cache, geoid, <<"answer">>).requests) :
          \E r \in {collect_tract(acs_cache, geoid, acs_net)} :
            /\ job' = [job EXCEPT
                  !.result.idx = @ + 1,
                  !.result.demographics_dict = DictPut(@, geoid, r.result),
                  !.result.slept = r.slept,
                  !.result.gaps = gaps_after(@, job.result.since, r.backoffs, r.requests),
                  !.result.since = (IF r.requests > 0 THEN 0 ELSE @)
                                   + (IF r.slept /\ (r.requests > 0 \/ @ >= 0)
                                      THEN RATE_LIMIT_DELAY ELSE 0)]
            /\ acs_cache' = r.cache
            /\ acs_cache_file' = IF r.saved THEN r.cache ELSE acs_cache_file
            /\ files' = [files EXCEPT !.acs = IF r.saved THEN "written" ELSE @]
            /\ last' = [NoCall EXCEPT !.op = "batch_collect_demographics",
                                      !.acs_net = acs_net,
                                      !.value = r.result,
                                      !.acs_requests = r.requests]
    /\ UNCHANGED <<storeVars, geo_cache, geo_cache_file, acs_collector, workerVars>>

\* The end of the loop: the merge and the return
CollectReturn ==
    /\ job.op = "batch_collect_demographics"
    /\ job.result.phase = "running"
    /\ job.result.idx = Len(job.result.unique_tracts)
    /\ job' = [job EXCEPT
          !.result.phase = "returned",
          !.result.result_df = merge_demographics(job.args, job.result.demographics_dict)]
    /\ UNCHANGED <<storeVars, cacheVars, acs_collector, last, workerVars>>

NextCollect ==
    \/ CollectTract
    \/ CollectReturn

SpecCollect == InitCollect /\ [][NextCollect]_vars

\* C22: in batch_collect_demographics at least the rate-limit delay elapses
\* between any two consecutive requests to the demographic API, and the delay
\* is skipped only after a tract that was served from the cache without a
\* request.
C22_DelayBetweenRequests ==
    job.op = "batch_collect_demographics" =>
        /\ \A k \in DOMAIN job.result.gaps : job.result.gaps[k] >= RATE_LIMIT_DELAY
        /\ (last.op = "batch_collect_demographics" /\ ~job.result.slept)
              => last.acs_requests = 0

-----------------------------------------------------------------------------
(* ACSDataCollector.get_tract_demographics against every behaviour of the API *)

\* The tracts asked for: published, unpublished (404), with missing cells
AcsGeoids == {G_OK.geoid, G_404.geoid, G_PARTIAL.geoid}

\* A collector with an API key and an empty cache
InitAcs ==
    /\ fl_census = load_census_data(FULL_CSV, "FL")
    /\ pa_census = load_census_data(FULL_CSV, "PA")
    /\ fetched_tracts_cache = EmptyDict
    /\ geo_cache = EmptyDict
    /\ geo_cache_file = EmptyDict
    /\ acs_cache = EmptyDict
    /\ acs_cache_file = EmptyDict
    /\ files = [geo |-> "missing", acs |-> "missing"]
    /\ acs_collector = "configured"
    /\ last = NoCall
    /\ pc = [w \in Workers |-> "idle"]
    /\ loc = [w \in Workers |-> NoLocals]
    /\ job = NoJob

\* get_tract_demographics(state_fips, county_fips, tract_fips), the API
\* answering its requests in any of the ways AcsScripts lists
GetTractDemographics ==
    \E geoid \in AcsGeoids :
      \E acs_net \in IF geoid \in DOMAIN acs_cache THEN {<<"answer">>} ELSE AcsScripts :
        \E d \in {get_tract_demographics(acs_cache, geoid, acs_net)} :
            /\ acs_cache' = d.cache
            /\ acs_cache_file' = IF d.saved THEN d.cache ELSE acs_cache_file
            /\ files' = [files EXCEPT !.acs = IF d.saved THEN "written" ELSE @]
            /\ last' = [NoCall EXCEPT !.op = "get_tract_demographics",
                                      !.acs_net = acs_net,
                                      !.value = d.result,
                                      !.acs_requests = d.requests]
            /\ UNCHANGED <<storeVars, geo_cache, geo_cache_file, acs_collector,
                           workerVars, job>>

NextAcs == GetTractDemographics

SpecAcs == InitAcs /\ [][NextAcs]_vars

\* The API answered the request of index i with HTTP 404
NotFoundAt(call, i) ==
    /\ i \in DOMAIN call.acs_net
    /\ call.acs_net[i] = "answer"
    /\ ~ACS_PUBLISHED(call.value.geoid)

\* A result that may be in the cache: a success or the not-found result
Cacheable(result) == result.success \/ result.error = "Tract not found in ACS"

\* C23: get_tract_demographics sends at most max_retries requests per call and
\* always returns a result; an HTTP 404 is not retried and its not-found
\* result is cached, so that later calls for the GEOID send no request; HTTP
\* 429 and timeouts are retried until the attempts are exhausted; and no
\* failure other than the 404 is ever written to the cache.
C23_BoundedRetriesAndNegativeCache ==
    /\ [](/\ last.op = "get_tract_demographics" =>
                /\ last.acs_requests <= ACS_MAX_RETRIES
                /\ last.error = "none"
                /\ last.value # NoValue
                /\ last.value.geoid \in AcsGeoids
          /\ \A geoid \in DOMAIN acs_cache : Cacheable(acs_cache[geoid])
          /\ \A geoid \in DOMAIN acs_cache_file : Cacheable(acs_cache_file[geoid]))
    /\ [][last'.op = "get_tract_demographics" =>
            /\ last'.value.geoid \in DOMAIN acs_cache => last'.acs_requests = 0
            /\ last'.value.geoid \notin DOMAIN acs_cache =>
                  \* every 429 and timeout was followed by another request
                  \* while attempts were left, and nothing else was
                  /\ last'.acs_requests >= 1
                  /\ \A i \in 1..(last'.acs_requests - 1) :
                        last'.acs_net[i] \in {"429", "timeout"}
                  /\ last'.acs_requests < ACS_MAX_RETRIES =>
                        last'.acs_net[last'.acs_requests] \notin {"429", "timeout"}
                  /\ NotFoundAt(last', last'.acs_requests) =>
                        /\ last'.value.error = "Tract not found in ACS"
                        /\ last'.value.geoid \in DOMAIN acs_cache'
                        /\ acs_cache'[last'.value.geoid] = last'.value
                        /\ acs_cache_file' = acs_cache'
                  /\ ~Cacheable(last'.value) =>
                        /\ acs_cache' = acs_cache
                        /\ acs_cache_file' = acs_cache_file]_vars

\* A call that gave up after max_retries rate-limited requests, by a collector
\* whose cache holds the not-found result of an earlier 404
C23_Witness ==
    /\ last.op = "get_tract_demographics"
    /\ last.acs_requests = ACS_MAX_RETRIES
    /\ last.value.error = "Rate limit exceeded"
    /\ G_404.geoid \in DOMAIN acs_cache
    /\ acs_cache[G_404.geoid].error = "Tract not found in ACS"
    /\ last.value.geoid \notin DOMAIN acs_cache

-----------------------------------------------------------------------------
(* MultiStateDataLoader.load_census_data over a centroid cache file *)

\* A Florida tract of a county that is not in county_centers, and the extract
\* with it
G_RURAL == [geoid |-> Geoid("12", "001", 905), lo |-> 29600, hi |-> 29620, lon |-> -82300]

CENTROID_CSV == FULL_CSV \o <<CsvRow(G_RURAL, Demo(60, 37, 45, 24, 40, 6, 3, 1, 1))>>

\* The tracts of the extract
CsvTracts == GridTracts \cup {G_PARTIAL, P_ONE, G_RURAL}

\* data/census/cache/tract_centroids.csv holding the exact centroids of the
\* tracts T
centroids_df(T) ==
    [geoid \in {t.geoid : t \in T} |->
        LET t == CHOOSE w \in T : w.geoid = geoid
        IN  [latitude |-> Centroid(t), longitude |-> t.lon]]

\* county_centers and state_centers of _add_approximate_centroids, in
\* thousandths of a degree: the counties of the modelled tracts
county_centers ==
    [key \in {<<"12", "095">>, <<"42", "101">>} |->
        IF key = <<"12", "095">> THEN [latitude |-> 28538, longitude |-> -81379]
        ELSE [latitude |-> 40038, longitude |-> -75140]]

state_centers ==
    [state_fips \in {"12", "42"} |->
        IF state_fips = "12" THEN [latitude |-> 28000, longitude |-> -82000]
        ELSE [latitude |-> 40500, longitude |-> -77500]]

\* get_approx_centroid(row); the GEOID holds the zero-filled FIPS codes
get_approx_centroid(row) ==
    LET state_fips == row.census_geoid[1]
        county_fips == row.census_geoid[2]
    IN  IF <<state_fips, county_fips>> \in DOMAIN county_centers
        THEN county_centers[<<state_fips, county_fips>>]
        ELSE IF state_fips \in DOMAIN state_centers
        THEN state_centers[state_fips]
        ELSE [latitude |-> 0, longitude |-> 0]

\* _add_approximate_centroids: census[['latitude', 'longitude']] =
\* census.apply(get_approx_centroid, axis=1), an assignment to both columns of
\* every row
add_approximate_centroids(census) ==
    [i \in DOMAIN census |->
        [f \in DOMAIN census[i] \cup {"latitude", "longitude"} |->
            IF f \in {"latitude", "longitude"} THEN get_approx_centroid(census[i])[f]
            ELSE census[i][f]]]

\* census.merge(centroids_df, on='census_geoid', how='left')
merge_centroids(census, centroids) ==
    [i \in DOMAIN census |->
        [f \in DOMAIN census[i] \cup {"latitude", "longitude"} |->
            IF f \in {"latitude", "longitude"}
            THEN IF census[i].census_geoid \in DOMAIN centroids
                 THEN centroids[census[i].census_geoid][f] ELSE NaN
            ELSE census[i][f]]]

\* _add_tract_centroids over the cache file: `exists` and its content
add_tract_centroids(census, exists, centroids) ==
    IF exists
    THEN Only({IF \A i \in DOMAIN merged : merged[i].latitude # NaN
               THEN merged
               ELSE add_approximate_centroids(merged)
               : merged \in {merge_centroids(census, centroids)}})
    ELSE add_approximate_centroids(census)

\* load_census_data up to the centroids: the populated tracts with their
\* density
populated_tracts(csv) ==
    LET populated == SelectSeq(csv, LAMBDA r :
                        r.acs.total_population # NaN /\ r.acs.total_population > 0)
    IN  [i \in DOMAIN populated |->
            [census_geoid |-> populated[i].census_geoid,
             state |-> IF populated[i].census_state_fips = "12" THEN "FL" ELSE "PA",
             acs |-> populated[i].acs,
             tract_area_sqm |-> populated[i].tract_area_sqm,
             population_density |->
                 PopulationDensity(populated[i].acs.total_population,
                                   populated[i].tract_area_sqm),
             census_data_complete |-> \A v \in ACS_VARIABLES : populated[i].acs[v] # NaN]]

\* load_census_data over a centroid cache file: both state tables
load_census_data_with_centroids(csv, exists, centroids) ==
    Only({[s \in SUPPORTED_STATES |->
             Only({[i \in DOMAIN of_state |->
                      [f \in DOMAIN of_state[i] \ {"state"} |-> of_state[i][f]]]
                   : of_state \in {SelectSeq(census, LAMBDA r : r.state = s)}})]
          : census \in {add_tract_centroids(populated_tracts(csv), exists, centroids)}})

\* A loader about to load the extract, the centroid cache file missing or
\* holding the centroids of some of the tracts
InitCentroids ==
    /\ fl_census = <<>>
    /\ pa_census = <<>>
    /\ fetched_tracts_cache = EmptyDict
    /\ geo_cache = EmptyDict
    /\ geo_cache_file = EmptyDict
    /\ acs_cache = EmptyDict
    /\ acs_cache_file = EmptyDict
    /\ files = [geo |-> "missing", acs |-> "missing"]
    /\ acs_collector = "configured"
    /\ last = NoCall
    /\ pc = [w \in Workers |-> "idle"]
    /\ loc = [w \in Workers |-> NoLocals]
    /\ \E exists \in BOOLEAN, T \in SUBSET CsvTracts :
          /\ ~exists => T = {}
          /\ job = [op |-> "load_census_data",
                    args |-> [exists |-> exists, centroids |-> centroids_df(T)],
                    result |-> NoValue]

LoadCensusData ==
    /\ job.op = "load_census_data"
    /\ job.result = NoValue
    /\ \E census \in {load_census_data_with_centroids(
                          CENTROID_CSV, job.args.exists, job.args.centroids)} :
          /\ fl_census' = census["FL"]
          /\ pa_census' = census["PA"]
          /\ job' = [job EXCEPT !.result = [loaded |-> TRUE]]
    /\ UNCHANGED <<fetched_tracts_cache, cacheVars, acs_collector, last, workerVars>>

NextCentroids == LoadCensusData

SpecCentroids == InitCentroids /\ [][NextCentroids]_vars

\* The loader has loaded the extract with the centroid cache file present
LoadedWithCentroidFile ==
    /\ job.op = "load_census_data"
    /\ job.result # NoValue
    /\ job.args.exists

\* C24: when the exact-centroid cache file is present, every loaded tract
\* whose GEOID is in the file has the cached centroid as its latitude and
\* longitude; only tracts without a cached centroid get the approximate
\* county-centre or state-centre coordinates.
C24_CachedCentroidsKept ==
    LoadedWithCentroidFile =>
        \A row \in CensusRows :
            row.census_geoid \in DOMAIN job.args.centroids =>
                /\ row.latitude = job.args.centroids[row.census_geoid].latitude
                /\ row.longitude = job.args.centroids[row.census_geoid].longitude

-----------------------------------------------------------------------------
(* MultiStatePredictor.predict_with_confidence *)

\* z for confidence = 0.95, in thousandths, and the cap of the half width in
\* hundredths of the prediction
Z_SCORE_MILLI == 1960
MAX_HALF_WIDTH_PCT == 75

\* The RMSE and the mean visits the interval is scaled with, by state label
RMSE == [label \in {"FL", "PA", "overall"} |->
            IF label = "FL" THEN 18270 ELSE IF label = "PA" THEN 30854 ELSE 21407]

MEAN_VISITS == [label \in {"FL", "PA", "overall"} |->
                   IF label = "FL" THEN 31142 ELSE IF label = "PA" THEN 52118 ELSE 37000]

\* What pipeline.predict returns for the records of the model: annual visits,
\* in thousands
Predictions == {-1, 0, 40}

\* The values a state indicator is given: 0, 1, another number, NaN
IndicatorValues == {0, 1, 2, NaN}

\* The names of a feature record: the two indicators, and one name for the
\* rest of the features
FeatureNames == {"is_FL", "is_PA", "total_population"}

\* features_dict.get(name, 0)
get(features_dict, name, default) ==
    IF name \in DOMAIN features_dict THEN features_dict[name] ELSE default

ValueError(message) == [error |-> "ValueError", message |-> message, value |-> NoValue]

\* validate_features: (is_valid, missing_features)
validate_features(feature_names, features_dict) ==
    [is_valid |-> feature_names \subseteq DOMAIN features_dict,
     missing |-> feature_names \ DOMAIN features_dict]

\* The guard of predict_with_confidence on the state indicators, rejecting
\* every record that does not name exactly one state
validate_state_indicators_exactly_one(is_fl, is_pa) ==
    IF is_fl = 1 /\ is_pa = 1 THEN "both is_FL and is_PA are 1"
    ELSE IF is_fl \notin {0, 1} THEN "is_FL must be 0 or 1"
    ELSE IF is_pa \notin {0, 1} THEN "is_PA must be 0 or 1"
    ELSE IF is_fl = 0 /\ is_pa = 0 THEN "neither is_FL nor is_PA is 1"
    ELSE "valid"

\* The guard of predict_with_confidence on the state indicators
validate_state_indicators(is_fl, is_pa) ==
    IF is_fl = 1 /\ is_pa = 1 THEN "both is_FL and is_PA are 1"
    ELSE IF is_fl \notin {0, 1} THEN "is_FL must be 0 or 1"
    ELSE IF is_pa \notin {0, 1} THEN "is_PA must be 0 or 1"
    ELSE "valid"

\* The state whose RMSE is used: from the training report of a v2 artifact by
\* the indicators alone, for a v3 artifact by the indicators or the state of
\* the predictor
state_label(has_training_report, state, is_fl, is_pa) ==
    IF has_training_report
    THEN IF is_fl = 1 THEN "FL" ELSE IF is_pa = 1 THEN "PA" ELSE "overall"
    ELSE IF is_fl = 1 \/ state = "FL" THEN "FL"
    ELSE IF is_pa = 1 \/ state = "PA" THEN "PA"
    ELSE "overall"

\* The interval of method 'normal': prediction +- z * rmse * prediction /
\* mean_visits, capped at +-75 % of the prediction, not below 0
normal_interval(prediction, label) ==
    LET z_rmse_per_visit == Frac(Z_SCORE_MILLI * RMSE[label], 1000 * MEAN_VISITS[label])
        ci_half_width == Frac(z_rmse_per_visit.num * prediction, z_rmse_per_visit.den)
        max_half_width == Frac(MAX_HALF_WIDTH_PCT * prediction, 100)
        less(x, y) == x.num * y.den < y.num * x.den
        minus(x, y) == FracAdd(x, Frac(-y.num, y.den))
        max0(x) == IF x.num < 0 THEN Frac(0, 1) ELSE x
        cap_applied == less(max_half_width, ci_half_width)
        half == IF cap_applied THEN max_half_width ELSE ci_half_width
    IN  [ci_lower |-> max0(minus(Frac(prediction, 1), half)),
         ci_upper |-> FracAdd(Frac(prediction, 1), half),
         cap_applied |-> cap_applied]

\* predict_with_confidence(features_dict, method=method) by a predictor whose
\* artifact names feature_names, has a training report or not, and was loaded
\* for `state`; `prediction` is what the pipeline predicts for the record
predict_with_confidence(feature_names, has_training_report, state, features_dict, method, prediction) ==
    IF ~validate_features(feature_names, features_dict).is_valid
    THEN ValueError("Missing required features")
    ELSE Only({
           IF guard # "valid" THEN ValueError(guard)
           ELSE IF method \notin {"normal", "bootstrap"} THEN ValueError("Unknown method")
           ELSE Only({
                  [error |-> "none", message |-> "",
                   value |-> [prediction |-> prediction,
                              method |-> IF method = "normal"
                                         THEN "prediction_proportional_capped"
                                         ELSE "bootstrap",
                              interval |-> IF method = "normal"
                                           THEN normal_interval(prediction, label)
                                           ELSE NoValue,
                              rmse_used |-> RMSE[label],
                              state |-> label]]
                  : label \in {state_label(has_training_report, state,
                                           get(features_dict, "is_FL", 0),
                                           get(features_dict, "is_PA", 0))}})
           : guard \in {validate_state_indicators(get(features_dict, "is_FL", 0),
                                                  get(features_dict, "is_PA", 0))}})

\* The predictors: the unified v2 artifact, whose features include the
\* indicators, and the state-specific v3 artifacts, whose features do not
Predictors ==
    {[feature_names |-> FeatureNames, has_training_report |-> TRUE, state |-> "None"],
     [feature_names |-> {"total_population"}, has_training_report |-> FALSE, state |-> "FL"],
     [feature_names |-> {"total_population"}, has_training_report |-> FALSE, state |-> "PA"]}

\* The feature records: any subset of the names, any value of the indicators
FeatureDicts ==
    UNION {[names -> IndicatorValues] : names \in SUBSET FeatureNames}

\* A predictor about to be asked for a prediction with its interval
InitPredictor ==
    /\ fl_census = load_census_data(FULL_CSV, "FL")
    /\ pa_census = load_census_data(FULL_CSV, "PA")
    /\ fetched_tracts_cache = EmptyDict
    /\ geo_cache = EmptyDict
    /\ geo_cache_file = EmptyDict
    /\ acs_cache = EmptyDict
    /\ acs_cache_file = EmptyDict
    /\ files = [geo |-> "missing", acs |-> "missing"]
    /\ acs_collector = "configured"
    /\ last = NoCall
    /\ pc = [w \in Workers |-> "idle"]
    /\ loc = [w \in Workers |-> NoLocals]
    /\ \E predictor \in Predictors, features_dict \in FeatureDicts,
          method \in {"normal", "bootstrap", "exact"}, prediction \in Predictions :
          job = [op |-> "predict_with_confidence",
                 args |-> [predictor |-> predictor, features_dict |-> features_dict,
                           method |-> method, prediction |-> prediction],
                 result |-> NoValue]

PredictWithConfidence ==
    /\ job.op = "predict_with_confidence"
    /\ job.result = NoValue
    /\ job' = [job EXCEPT !.result =
                  predict_with_confidence(job.args.predictor.feature_names,
                                          job.args.predictor.has_training_report,
                                          job.args.predictor.state,
                                          job.args.features_dict, job.args.method,
                                          job.args.prediction)]
    /\ UNCHANGED <<storeVars, cacheVars, acs_collector, last, workerVars>>

NextPredictor == PredictWithConfidence

SpecPredictor == InitPredictor /\ [][NextPredictor]_vars

\* predict_with_confidence has run; the indicators of its record
Predicted == job.op = "predict_with_confidence" /\ job.result # NoValue

IsFL == get(job.args.features_dict, "is_FL", 0)
IsPA == get(job.args.features_dict, "is_PA", 0)

-----------------------------------------------------------------------------
(* CensusTractIdentifier.get_tract_from_coordinates against every behaviour *)
(* of the geocoder                                                          *)

\* The points asked for: in G_OK, over water, in the first grid tract, in the
\* Pennsylvania tract
GeocoderSites ==
    {Site(27998, -81000), Site(27800, -81000), Site(28010, -81000), Site(40010, -77000)}

\* An identifier over no cache file or over the file an earlier run left
InitGeocoder ==
    /\ fl_census = load_census_data(FULL_CSV, "FL")
    /\ pa_census = load_census_data(FULL_CSV, "PA")
    /\ fetched_tracts_cache = EmptyDict
    /\ files \in {[geo |-> "missing", acs |-> "missing"], [geo |-> "written", acs |-> "missing"]}
    /\ geo_cache_file = IF files.geo = "written" THEN STORED_GEO_FILE ELSE EmptyDict
    /\ geo_cache = load_cache(files.geo, geo_cache_file).cache
    /\ acs_cache = EmptyDict
    /\ acs_cache_file = EmptyDict
    /\ acs_collector = "configured"
    /\ last = NoCall
    /\ pc = [w \in Workers |-> "idle"]
    /\ loc = [w \in Workers |-> NoLocals]
    /\ job = NoJob

\* get_tract_from_coordinates(latitude, longitude), the geocoder answering
\* its requests in any of the ways GeoScripts lists
GeocodeSite ==
    \E site \in GeocoderSites :
      \E geo_net \in IF make_cache_key(site.lat, site.lon) \in DOMAIN geo_cache
                     THEN {<<"ok">>} ELSE GeoScripts :
        \E g \in {get_tract_from_coordinates(geo_cache, site.lat, site.lon, geo_net)} :
            /\ geo_cache' = g.cache
            /\ geo_cache_file' = IF g.saved THEN g.cache ELSE geo_cache_file
            /\ files' = [files EXCEPT !.geo = IF g.saved THEN "written" ELSE @]
            /\ last' = [NoCall EXCEPT !.op = "get_tract_from_coordinates",
                                      !.latitude = site.lat, !.longitude = site.lon,
                                      !.geo_net = geo_net,
                                      !.value = g.result,
                                      !.geo_requests = g.requests]
            /\ UNCHANGED <<storeVars, acs_cache, acs_cache_file, acs_collector,
                           workerVars, job>>

NextGeocoder == GeocodeSite

SpecGeocoder == InitGeocoder /\ [][NextGeocoder]_vars

\* The cache key of a call
KeyOf(call) == make_cache_key(call.latitude, call.longitude)

\* C26: after any sequence of get_tract_from_coordinates calls starting from a
\* cache of successful results, every entry of the geocoding cache, in memory
\* and in the file as last saved, is a successful result; a timeout, an
\* exception or a 'no census tract found' answer is not cached, and a call
\* for a coordinate that is not in the cache contacts the geocoder.
C26_OnlySuccessesCached ==
    /\ [](/\ \A key \in DOMAIN geo_cache : geo_cache[key].success
          /\ \A key \in DOMAIN geo_cache_file : geo_cache_file[key].success
          /\ (last.op = "get_tract_from_coordinates" /\ ~last.value.success)
                => KeyOf(last) \notin DOMAIN geo_cache)
    /\ [][last'.op = "get_tract_from_coordinates" =>
            /\ KeyOf(last') \in DOMAIN geo_cache =>
                  /\ last'.geo_requests = 0
                  /\ last'.value = geo_cache[KeyOf(last')]
            /\ KeyOf(last') \notin DOMAIN geo_cache =>
                  /\ last'.geo_requests >= 1
                  /\ ~last'.value.success =>
                        /\ geo_cache' = geo_cache
                        /\ geo_cache_file' = geo_cache_file
                  /\ last'.value.success =>
                        /\ geo_cache' = DictPut(geo_cache, KeyOf(last'), last'.value)
                        /\ geo_cache_file' = geo_cache']_vars

\* A call that found no tract for a point over water, by an identifier whose
\* cache holds results: the point is not in the cache afterwards
C26_Witness ==
    /\ last.op = "get_tract_from_coordinates"
    /\ last.value.error = "No census tract found"
    /\ last.geo_requests >= 1
    /\ geo_cache # EmptyDict
    /\ geo_cache_file = geo_cache
    /\ KeyOf(last) \notin DOMAIN geo_cache

-----------------------------------------------------------------------------
(* Further properties of the single-caller specification *)

\* C27: whenever calculate_all_features raises (unsupported state, invalid
\* coordinates, geocoding failure, no API key, failed demographic fetch or
\* missing centroid), both census tables of the data loader and
\* fetched_tracts_cache are exactly as they were before the call.
C27_FailedCallLeavesStore ==
    [][(last'.op = "calculate_all_features" /\ last'.error # "none")
          => /\ fl_census' = fl_census
             /\ pa_census' = pa_census
             /\ fetched_tracts_cache' = fetched_tracts_cache]_vars

\* A call that raised after the demographic API was asked and the Gazetteer
\* was read: the tract has data but no centroid in the state's file
C27_Witness ==
    /\ last.op = "calculate_all_features"
    /\ last.error = "DataNotFoundError"
    /\ last.cause = "no_centroid"
    /\ last.acs_requests > 0
    /\ ~last.store_changed
    /\ acs_cache # EmptyDict

\* The tracts of other states the geocoder returns for a point
ForeignTractsAt(state, latitude, longitude) ==
    {t \in CensusTractsAt(latitude, longitude) :
        state \in DOMAIN STATE_FIPS_MAP /\ t.geoid[1] # STATE_FIPS_MAP[state]}

\* C30: every record calculate_all_features returns for state S carries a
\* census_geoid whose state FIPS is that of S, each census table holds tracts
\* of its state only, and a point inside the bounding box of S that geocodes
\* to a tract of another state ends in an error.
C30_TractsOfTheStateOnly ==
    /\ \A i \in DOMAIN fl_census : fl_census[i].census_geoid[1] = STATE_FIPS_MAP["FL"]
    /\ \A i \in DOMAIN pa_census : pa_census[i].census_geoid[1] = STATE_FIPS_MAP["PA"]
    /\ \A geoid \in DOMAIN fetched_tracts_cache :
          geoid[1] \in {STATE_FIPS_MAP["FL"], STATE_FIPS_MAP["PA"]}
    /\ last.op = "calculate_all_features" =>
          /\ last.error = "none" =>
                last.value.demographics.census_geoid[1] = STATE_FIPS_MAP[last.value.state]
          /\ ForeignTractsAt(UpperStrip(last.state), last.latitude, last.longitude) # {}
                => last.error # "none"

\* A Florida call for a point in the Florida box that the geocoder places in
\* a Georgia tract the demographic API has data for
C30_Witness ==
    /\ last.op = "calculate_all_features"
    /\ UpperStrip(last.state) = "FL"
    /\ validate_coordinates("FL", last.latitude, last.longitude) = "ok"
    /\ ForeignTractsAt("FL", last.latitude, last.longitude) = {G_GA}
    /\ last.geo_requests > 0
    /\ last.acs_requests > 0
    /\ last.error = "DataNotFoundError"

-----------------------------------------------------------------------------
(* CompetitiveFeatureEngineer and CoordinateFeatureCalculator over one *)
(* facility list *)

\* The largest facility list that is engineered
MaxFacilities == 6

\* df[valid_mask] for the rows of df with index in I, in file order
RECURSIVE select_rows(_, _)
select_rows(df, I) ==
    IF df = <<>> THEN <<>>
    ELSE LET rest == select_rows(Tail(df), {i - 1 : i \in I \ {1}})
         IN  IF 1 \in I THEN <<Head(df)>> \o rest ELSE rest

\* The facility lists: the selections of the first MaxFacilities verified
\* Florida stores that hold at least one store
FacilityLists ==
    {select_rows(fl_dispensaries, I) :
        I \in (SUBSET (1..MaxFacilities)) \ {{}}}

\* calculate_distance_matrix(df): np.zeros((n, n)) filled, off the diagonal,
\* with the distance between row i and row j
calculate_distance_matrix(df) ==
    [i \in 1..Len(df) |->
        [j \in 1..Len(df) |->
            IF i = j THEN 0
            ELSE DistanceTenths(df[i].latitude, df[i].longitude,
                                df[j].latitude, df[j].longitude)]]

\* calculate_competitor_counts: (distances < radius).sum(axis=1) - 1 for each
\* radius of RADII, one row per store
calculate_competitor_counts(df, distances) ==
    [i \in 1..Len(df) |->
        [radius \in RadiiSet |->
            Cardinality({j \in 1..Len(df) :
                            distances[i][j] < radius * TenthsPerMile}) - 1]]

\* 1.0 / distances for a distance in tenths of a mile, truncated to the unit
\* of the score
inverse_distance(distance) == (TenthsPerMile * SCORE_ONE) \div distance

\* weights.sum(axis=1) over the columns in idx of one row of the matrix
RECURSIVE weights_sum(_, _)
weights_sum(row, idx) ==
    IF idx = {} THEN 0
    ELSE LET j == CHOOSE k \in idx : TRUE
         IN  inverse_distance(row[j]) + weights_sum(row, idx \ {j})

\* calculate_distance_weighted_competition: np.where((distances < 20) &
\* (distances > 0), 1.0 / distances, 0).sum(axis=1)
calculate_distance_weighted_competition(df, distances) ==
    [i \in 1..Len(df) |->
        weights_sum(distances[i],
                    {j \in 1..Len(df) :
                        /\ distances[i][j] < 20 * TenthsPerMile
                        /\ distances[i][j] > 0})]

\* CompetitiveFeatureEngineer.engineer_features, the two competition columns
engineer_competition(df) ==
    Only({[competitors |-> calculate_competitor_counts(df, distances),
           competition_weighted_20mi |->
               calculate_distance_weighted_competition(df, distances)]
          : distances \in {calculate_distance_matrix(df)}})

\* What calculate_competitors_multi_radius and calculate_competition_weighted
\* compute from dispensaries_df for the point (latitude, longitude)
site_competition(dispensaries_df, latitude, longitude) ==
    Only({[competitors |-> [radius \in RadiiSet |-> competitors_within(distances, radius)],
           competition_weighted_20mi |->
               weighted_sum(distances,
                   {i \in DOMAIN distances :
                       /\ distances[i] > SAME_LOCATION_TENTHS
                       /\ distances[i] <= 20 * TenthsPerMile})]
          : distances \in {distances_to(dispensaries_df, latitude, longitude)}})

InitCompetition ==
    /\ fl_census = <<>>
    /\ pa_census = <<>>
    /\ fetched_tracts_cache = EmptyDict
    /\ geo_cache = EmptyDict
    /\ geo_cache_file = EmptyDict
    /\ acs_cache = EmptyDict
    /\ acs_cache_file = EmptyDict
    /\ files = [geo |-> "missing", acs |-> "missing"]
    /\ acs_collector = "configured"
    /\ last = NoCall
    /\ pc = [w \in Workers |-> "idle"]
    /\ loc = [w \in Workers |-> NoLocals]
    /\ \E df \in FacilityLists :
          job = [op |-> "facilities", args |-> [df |-> df, site |-> 0],
                 result |-> NoValue]

\* Training time: the engineer adds the competition columns to the list
EngineerFeatures ==
    /\ job.op = "facilities"
    /\ job' = [op |-> "engineer_features", args |-> job.args,
               result |-> engineer_competition(job.args.df)]
    /\ UNCHANGED <<storeVars, cacheVars, acs_collector, last, workerVars>>

\* Prediction time: the calculator is asked for the site of one row of the
\* list it loaded
PredictSite ==
    /\ job.op = "engineer_features"
    /\ \E site \in 1..Len(job.args.df) :
          job' = [op |-> "calculate_all_features",
                  args |-> [job.args EXCEPT !.site = site],
                  result |-> [training |-> [competitors |-> job.result.competitors[site],
                                            competition_weighted_20mi |->
                                                job.result.competition_weighted_20mi[site]],
                              calculator |-> site_competition(job.args.df,
                                                 job.args.df[site].latitude,
                                                 job.args.df[site].longitude)]]
    /\ UNCHANGED <<storeVars, cacheVars, acs_collector, last, workerVars>>

NextCompetition == EngineerFeatures \/ PredictSite

SpecCompetition == InitCompetition /\ [][NextCompetition]_vars

\* The calculator has answered for a site of the list
SitePredicted == job.op = "calculate_all_features"

\* C29: for a site that is in the facility list, the competitor count at each
\* radius and the distance-weighted score of the calculator equal those of
\* the engineer for the site's row.
C29_SameCompetition ==
    SitePredicted =>
        /\ \A radius \in RadiiSet :
              job.result.calculator.competitors[radius]
                  = job.result.training.competitors[radius]
        /\ job.result.calculator.competition_weighted_20mi
              = job.result.training.competition_weighted_20mi

\* The counts alone, for a site with a store exactly at a radius or within
\* 0.1 mile of it
C29_SameCounts ==
    SitePredicted =>
        \A radius \in RadiiSet :
            job.result.calculator.competitors[radius]
                = job.result.training.competitors[radius]

\* The score alone, for a site with another store within 20 miles
C29_SameScore ==
    SitePredicted =>
        job.result.calculator.competition_weighted_20mi
            = job.result.training.competition_weighted_20mi

\* A site with no other store within 20 miles has the same values from both
C29_AloneAgrees ==
    (/\ SitePredicted
     /\ \A j \in 1..Len(job.args.df) :
           j # job.args.site =>
              DistanceTenths(job.args.df[j].latitude, job.args.df[j].longitude,
                             job.args.df[job.args.site].latitude,
                             job.args.df[job.args.site].longitude)
                  > 20 * TenthsPerMile)
        => /\ job.result.calculator = job.result.training
           /\ job.result.calculator.competition_weighted_20mi = 0

-----------------------------------------------------------------------------
(* Two CensusTractIdentifier instances over one geocoding_cache.json *)

\* The instances: one per calculator (or process), each with its own
\* self.cache, all with the default cache_dir
Instances == {"a", "b"}

\* job.result.cache[i] is self.cache of instance i, job.result.constructed the
\* instances whose constructor has run
InitShared ==
    /\ fl_census = load_census_data(FULL_CSV, "FL")
    /\ pa_census = load_census_data(FULL_CSV, "PA")
    /\ fetched_tracts_cache = EmptyDict
    /\ files \in {[geo |-> "missing", acs |-> "missing"], [geo |-> "written", acs |-> "missing"]}
    /\ geo_cache_file = IF files.geo = "written" THEN STORED_GEO_FILE ELSE EmptyDict
    /\ geo_cache = EmptyDict
    /\ acs_cache = EmptyDict
    /\ acs_cache_file = EmptyDict
    /\ acs_collector = "configured"
    /\ last = NoCall
    /\ pc = [w \in Workers |-> "idle"]
    /\ loc = [w \in Workers |-> NoLocals]
    /\ job = [op |-> "none", args |-> [instance |-> "none"],
              result |-> [constructed |-> {},
                          cache |-> [i \in Instances |-> EmptyDict]]]

\* CensusTractIdentifier.__init__: self.cache = self._load_cache()
ConstructIdentifier ==
    \E i \in Instances \ job.result.constructed :
        /\ job' = [op |-> "__init__", args |-> [instance |-> i],
                   result |-> [constructed |-> job.result.constructed \cup {i},
                               cache |-> [job.result.cache EXCEPT
                                   ![i] = load_cache(files.geo, geo_cache_file).cache]]]
        /\ UNCHANGED <<storeVars, cacheVars, acs_collector, last, workerVars>>

\* get_tract_from_coordinates on instance i: a hit is answered from
\* self.cache of i, a success enters self.cache of i and _save_cache dumps
\* self.cache of i over the file
IdentifyTract ==
    \E i \in job.result.constructed, site \in GeocoderSites :
      \E geo_net \in IF make_cache_key(site.lat, site.lon) \in DOMAIN job.result.cache[i]
                     THEN {<<"ok">>} ELSE GeoScriptsUsed :
        \E g \in {get_tract_from_coordinates(job.result.cache[i], site.lat, site.lon, geo_net)} :
            /\ job' = [op |-> "get_tract_from_coordinates", args |-> [instance |-> i],
                       result |-> [job.result EXCEPT !.cache[i] = g.cache]]
            /\ geo_cache_file' = IF g.saved THEN g.cache ELSE geo_cache_file
            /\ files' = [files EXCEPT !.geo = IF g.saved THEN "written" ELSE @]
            /\ last' = [NoCall EXCEPT !.op = "get_tract_from_coordinates",
                                      !.latitude = site.lat, !.longitude = site.lon,
                                      !.geo_net = geo_net,
                                      !.value = g.result,
                                      !.geo_requests = g.requests]
            /\ UNCHANGED <<storeVars, geo_cache, acs_cache, acs_cache_file,
                           acs_collector, workerVars>>

NextShared == ConstructIdentifier \/ IdentifyTract

SpecShared == InitShared /\ [][NextShared]_vars

\* C28: an entry that is in the shared cache file stays in the file, with
\* its result, whichever instance saves next.
C28_PersistedEntriesKept ==
    [][\A key \in DOMAIN geo_cache_file :
          /\ key \in DOMAIN geo_cache_file'
          /\ geo_cache_file'[key] = geo_cache_file[key]]_vars

\* What does hold: a save keeps every entry the saving instance had loaded
\* or geocoded itself
C28_SaverKeepsOwnEntries ==
    [][job'.op = "get_tract_from_coordinates" =>
          \A key \in DOMAIN job.result.cache[job'.args.instance] :
              /\ key \in DOMAIN job'.result.cache[job'.args.instance]
              /\ (geo_cache_file' # geo_cache_file => key \in DOMAIN geo_cache_file')]_vars

\* With one instance only, the file never loses an entry
C28_SingleInstanceKeeps ==
    [][Cardinality(job'.result.constructed) <= 1 =>
          \A key \in DOMAIN geo_cache_file : key \in DOMAIN geo_cache_file']_vars

====
